---------------------------- MODULE Spec2Model ----------------------------
(***************************************************************************)
(* Scheduling core of the Jarvis assistant.                                *)
(*                                                                         *)
(*   master  : MasterJarvis._generate_weekly_schedule, the deadline-aware  *)
(*             distribution of a task pool over the week (master_jarvis)   *)
(*   daily   : DailyScheduleCreator.generate_accurate_schedule, the        *)
(*             placement of one day's tasks into time slots                *)
(*   weekly  : WeeklySchedulePlanner.generate_accurate_weekly_schedule and *)
(*             resolve_daily_conflicts, the per-day resolution of a week   *)
(*                                                                         *)
(* Hours of estimated time are counted in tenths of an hour, clock times   *)
(* in minutes after midnight.                                              *)
(***************************************************************************)
EXTENDS Integers, Sequences, FiniteSets, TLC

VARIABLES
    \* ---- master: _generate_weekly_schedule
    m_pc,               \* "start" | "idle" | "distribute" | "done"
    m_tasks,            \* the pool handed to _generate_weekly_schedule
    start_hour,         \* work window of smart_weekly_planner
    end_hour,
    sorted_tasks,       \* sorted(tasks, key=sort_key)
    m_next,             \* position of the distribution loop in sorted_tasks
    weekly_schedule,    \* day index -> [tasks, total_hours, deadline_alerts]
    deadline_warnings,  \* the local list deadline_warnings
    m_warnings,         \* weekly_schedule['_warnings'] (<<>> while the key is absent)
    placed_by           \* history: title -> the return statement of
                        \* _find_best_day_for_task that chose the task's day

    \* ---- daily: DailyScheduleCreator.create_daily_schedule
VARIABLES
    d_pc,               \* "start" | "collected" | "scheduled"
    all_tasks,          \* recurring_tasks + additional_tasks
    schedule            \* the list returned by generate_accurate_schedule

    \* ---- weekly: WeeklySchedulePlanner.create_weekly_schedule
VARIABLES
    w_pc,               \* "start" | "days" | "returned"
    weekly_recurring,   \* the active rows of recurring_tasks
    goals,              \* view_weekly_goals(start_date)
    additional_tasks,   \* the projects typed in
    day_offset,         \* position of the loop over the seven days
    built_days,         \* per day, daily_schedule as sorted at line 479
    resolved_days       \* per day, weekly_schedule[day_name]

    \* ---- recurrence: get_recurring_tasks_for_date / _for_week
VARIABLES
    rc_pc,              \* "start" | "read" | "expanded"
    recurring_table,    \* the active rows of the table recurring_tasks
    target_weekday,     \* target_date.weekday() of the daily expansion
    applicable_tasks,   \* result of get_recurring_tasks_for_date
    week_recurring      \* result of get_recurring_tasks_for_week, per day

    \* ---- instances: MasterJarvis._generate_recurring_instances
VARIABLES
    gi_pc,              \* "start" | "loop" | "returned" | "raised"
    pattern,            \* 'daily' | 'weekly' | 'biweekly' | 'monthly'
    end_date,           \* <<>> for None, <<e>> for the end date
    max_occurrences,    \* <<>> for None, <<n>> for n
    start_weekday,      \* weekday of datetime.now().date()
    start_day,          \* its day of the month
    start_month,        \* its month
    current_date,       \* steps from the start date, see below
    count,
    instances           \* the due dates of the instances created

    \* ---- creation: the task-creation operations of MasterJarvis
VARIABLES
    stored_tasks        \* the rows of the table tasks, in insertion order

    \* ---- extraction: extract_time_from_description
VARIABLES
    et_pc,              \* "start" | "typed" | "daily" | "weekly"
    description,        \* what the time patterns find in the description
    extracted_time      \* <<>> for None, <<s>> for the string returned

    \* ---- blocks: MasterJarvis.create_daily_schedule
VARIABLES
    cd_pc,              \* "start" | "loop" | "done"
    safe_tasks,         \* the pending tasks, by descending priority_total
    block_start_hour,   \* start_hour and end_hour of create_daily_schedule,
    block_end_hour,     \* in minutes
    current_hour,       \* in minutes
    scheduled_tasks     \* the entries [time, task, priority]

    \* ---- store: ScheduleManager
VARIABLES
    schedules,          \* the table schedules: id -> row
    sqlite_sequence,    \* the largest id the table has ever held
    handed,             \* history: id -> the data passed to the save_schedule
                        \* call that returned id
    deleted,            \* history: the ids delete_schedule has removed
    returned            \* the last call and what it returned

    \* ---- dates: smart_weekly_planner and the week structure
VARIABLES
    wp_pc,              \* "start" | "configured" | "processed" | "created"
    start_date,         \* the week starting date, as text
    task_due_date,      \* <<>> for no due date, <<s>> for the text s
    task_days_until_due,\* <<>> for None, <<n>> for n
    day_dates           \* weekday index -> weekly_schedule[day]['date']

    \* ---- project: MultiDayScheduler.save_multi_day_project
VARIABLES
    pj_pc,              \* "start" | "analyzed" | "saved"
    project_data,       \* [start_date, end_date], dates as text
    analysis,           \* analysis['project_phases']
    assignments         \* the rows of multi_day_assignments written

masterVars == <<m_pc, m_tasks, start_hour, end_hour, sorted_tasks, m_next,
                weekly_schedule, deadline_warnings, m_warnings, placed_by>>

dailyVars == <<d_pc, all_tasks, schedule>>

weeklyVars == <<w_pc, weekly_recurring, goals, additional_tasks, day_offset,
                built_days, resolved_days>>

recurVars == <<rc_pc, recurring_table, target_weekday, applicable_tasks,
               week_recurring>>

instVars == <<gi_pc, pattern, end_date, max_occurrences, start_weekday,
              start_day, start_month,
              current_date, count, instances>>

createVars == <<stored_tasks>>

timeVars == <<et_pc, description, extracted_time>>

\* the variables of the three schedulers
coreVars == <<masterVars, dailyVars, weeklyVars>>

\* the variables of the other operations
restVars == <<recurVars, instVars, createVars, timeVars>>

blockVars == <<cd_pc, safe_tasks, block_start_hour, block_end_hour,
               current_hour, scheduled_tasks>>

\* the variables of the operations on blocks, stores and dates
storeVars == <<schedules, sqlite_sequence, handed, deleted, returned>>

dateVars == <<wp_pc, start_date, task_due_date, task_days_until_due,
              day_dates>>

projectVars == <<pj_pc, project_data, analysis, assignments>>

moreVars == <<blockVars, storeVars, dateVars, projectVars>>

vars == <<coreVars, restVars, moreVars>>

-----------------------------------------------------------------------------
(* Generic helpers *)

Min2(a, b) == IF a <= b THEN a ELSE b

Max2(a, b) == IF a >= b THEN a ELSE b

RECURSIVE SeqSum(_, _)
\* s[i] + ... + s[Len(s)]
SeqSum(s, i) == IF i > Len(s) THEN 0 ELSE s[i] + SeqSum(s, i + 1)

\* all sequences over S of length 0..n
SeqsUpTo(S, n) == UNION {[1..k -> S] : k \in 0..n}

-----------------------------------------------------------------------------
(* Clock times.                                                            *)
(*                                                                         *)
(* A time string is [hour, minute, pad]: "%H:%M" text whose hour is        *)
(* written with two digits when pad holds ("09:00") and as typed otherwise *)
(* ("9:00").  A time object is a number of minutes after midnight.         *)

MinutesPerDay == 24 * 60

TimeStr(h, m) == [hour |-> h, minute |-> m, pad |-> TRUE]

\* the characters of a time string: the digits as 0..9, ':' as 10 (in
\* ASCII ':' follows '9')
TimeChars(t) ==
    IF t.pad \/ t.hour >= 10
    THEN <<t.hour \div 10, t.hour % 10, 10, t.minute \div 10, t.minute % 10>>
    ELSE <<t.hour, 10, t.minute \div 10, t.minute % 10>>

\* Python's str comparison a < b
StrLess(a, b) ==
    LET x == TimeChars(a)
        y == TimeChars(b)
    IN  \/ \E i \in 1..Min2(Len(x), Len(y)) :
              /\ x[i] < y[i]
              /\ \A j \in 1..(i - 1) : x[j] = y[j]
        \/ /\ Len(x) < Len(y)
           /\ \A j \in 1..Len(x) : x[j] = y[j]

\* datetime.strptime(s, "%H:%M").time()
Strptime(s) == s.hour * 60 + s.minute

\* time.strftime("%H:%M")
Strftime(t) == TimeStr(t \div 60, t % 60)

\* (datetime.combine(date, t) + timedelta(minutes=n)).time(): the date is
\* dropped, so the result wraps at midnight
PlusMinutes(t, n) == (t + n) % MinutesPerDay

\* list.sort / sorted with a key: stable; Less compares two keys' owners
StableSort(s, Less(_, _)) ==
    LET n == Len(s)
        before(i) == {j \in 1..n : \/ Less(s[j], s[i])
                                   \/ ~Less(s[i], s[j]) /\ j < i}
    IN  [r \in 1..n |-> s[CHOOSE i \in 1..n : Cardinality(before(i)) = r - 1]]

\* the half-open intervals [s1, s1 + d1) and [s2, s2 + d2) intersect
Intersect(s1, d1, s2, d2) == s1 < s2 + d2 /\ s2 < s1 + d1

-----------------------------------------------------------------------------
(* daily_scheduler.py: DailyScheduleCreator.generate_accurate_schedule     *)
(*                                                                         *)
(* A task is [task, duration, preferred_time, priority, type];             *)
(* preferred_time is <<>> for None and <<s>> for the time string s.  The   *)
(* name is the task's position in all_tasks.  An entry's duration is kept  *)
(* as the number n of its text "n min".                                    *)

MaxDayTasks == 3

DayTimeChoices == {TimeStr(9, 0), TimeStr(10, 0), TimeStr(17, 30)}

DurationChoices == {30, 90}

RecurringPriorities == {3, 8}

\* the priority create_daily_schedule gives every additional task
AdditionalPriority == 5

PreferredTimeChoices == {<<>>} \cup {<<t>> : t \in DayTimeChoices}

RecurringTaskChoices ==
    [duration : DurationChoices, preferred_time : PreferredTimeChoices,
     priority : RecurringPriorities, type : {"recurring"}]

AdditionalTaskChoices ==
    [duration : DurationChoices, preferred_time : PreferredTimeChoices,
     priority : {AdditionalPriority}, type : {"additional"}]

WithNames(s) ==
    [i \in 1..Len(s) |->
        [task |-> i, duration |-> s[i].duration,
         preferred_time |-> s[i].preferred_time,
         priority |-> s[i].priority, type |-> s[i].type]]

WorkStart == Strptime(TimeStr(8, 0))

WorkEnd == Strptime(TimeStr(18, 0))

BufferMinutes == 15

SlotMinutes == 60

MaxSlots == 8

IsFixed(t) == t.preferred_time # <<>>

IsFlexible(t) == ~IsFixed(t)

PreferredTimeLess(a, b) == StrLess(a.preferred_time[1], b.preferred_time[1])

\* fixed_time_tasks, sorted by preferred_time
FixedTimeTasks(tasks) == StableSort(SelectSeq(tasks, IsFixed), PreferredTimeLess)

\* variant: key=priority without reverse=True
PriorityAscending(a, b) == a.priority < b.priority

\* sort(key=priority, reverse=True): a goes before b
PriorityDescending(a, b) == a.priority > b.priority

\* flexible_tasks, sorted by priority
FlexibleTasks(tasks) ==
    StableSort(SelectSeq(tasks, IsFlexible), PriorityDescending)

RECURSIVE HourlySlots(_, _, _)
\* the loop that appends a slot every 60 minutes while the time is before
\* `stop` and fewer than 8 slots are listed
HourlySlots(current, slots, stop) ==
    IF current < stop /\ Len(slots) < MaxSlots
    THEN HourlySlots(PlusMinutes(current, SlotMinutes),
                     Append(slots, Strftime(current)), stop)
    ELSE slots

RECURSIVE GapSlots(_, _, _, _)
\* the loop over the fixed tasks: [current_time, available_slots] after the
\* tasks fixed[i..]
GapSlots(fixed, i, current, slots) ==
    IF i > Len(fixed) THEN [current_time |-> current, available_slots |-> slots]
    ELSE LET fixed_time == Strptime(fixed[i].preferred_time[1])
             task_end == PlusMinutes(fixed_time,
                                     fixed[i].duration + BufferMinutes)
         IN  GapSlots(fixed, i + 1, Max2(current, task_end),
                      IF current < fixed_time
                      THEN Append(slots, Strftime(current))
                      ELSE slots)

\* find_available_time_slots
find_available_time_slots(fixed_tasks) ==
    IF fixed_tasks = <<>>
    THEN [i \in 1..MaxSlots |->
            Strftime(WorkStart + (i - 1) * SlotMinutes)]
    ELSE LET gaps == GapSlots(StableSort(fixed_tasks, PreferredTimeLess), 1,
                              WorkStart, <<>>)
         IN  HourlySlots(gaps.current_time, gaps.available_slots, WorkEnd)

\* the entry of a fixed-time task
FixedEntry(task) ==
    [time |-> task.preferred_time[1], task |-> task.task,
     duration |-> task.duration, type |-> task.type,
     priority |-> <<"FIXED TIME">>]

\* the entry of a flexible task placed in a slot
FlexibleEntry(task, slot_time) ==
    [time |-> slot_time, task |-> task.task, duration |-> task.duration,
     type |-> task.type, priority |-> <<"Priority", task.priority>>]

EntryTimeLess(a, b) == StrLess(a.time, b.time)

\* generate_accurate_schedule(tasks, target_date)
generate_accurate_schedule(tasks) ==
    LET fixed_time_tasks == FixedTimeTasks(tasks)
        flexible_tasks == FlexibleTasks(tasks)
        available_slots == IF flexible_tasks # <<>>
                           THEN find_available_time_slots(fixed_time_tasks)
                           ELSE <<>>
        placed == Min2(Len(flexible_tasks), Len(available_slots))
    IN  StableSort(
            [i \in 1..Len(fixed_time_tasks) |-> FixedEntry(fixed_time_tasks[i])]
            \o [i \in 1..placed |->
                    FlexibleEntry(flexible_tasks[i], available_slots[i])],
            EntryTimeLess)

\* create_daily_schedule, lines 392-436: the day's recurring tasks and the
\* additional tasks typed in are combined
CollectTasks ==
    /\ d_pc = "start"
    /\ w_pc = "start"
    /\ \E n \in 1..MaxDayTasks :
          \E nr \in 0..n :
              \E recurring_tasks \in [1..nr -> RecurringTaskChoices],
                 additional \in [1..(n - nr) -> AdditionalTaskChoices] :
                  all_tasks' = WithNames(recurring_tasks \o additional)
    /\ d_pc' = "collected"
    /\ UNCHANGED <<schedule, weeklyVars, masterVars, restVars, moreVars>>

MaxTimedTasks == 3

\* a time as add_recurring_task stores it: any text strptime reads with
\* "%H:%M", so the hour is kept with or without its leading zero
TypedTime(h, m) == [hour |-> h, minute |-> m, pad |-> FALSE]

StoredTimeChoices ==
    {TypedTime(7, 0), TimeStr(7, 0), TimeStr(10, 0), TimeStr(16, 30),
     TimeStr(23, 30)}

StoredTaskChoices ==
    [duration : DurationChoices,
     preferred_time : {<<>>} \cup {<<t>> : t \in StoredTimeChoices},
     priority : {AdditionalPriority}, type : {"recurring"}]

\* create_daily_schedule, lines 392-436, when 'done' is typed at once: the
\* day holds the recurring tasks alone, with their times as stored
CollectRecurringTasks ==
    /\ d_pc = "start"
    /\ w_pc = "start"
    /\ \E n \in 1..MaxTimedTasks :
          \E recurring_tasks \in [1..n -> StoredTaskChoices] :
              all_tasks' = WithNames(recurring_tasks)
    /\ d_pc' = "collected"
    /\ UNCHANGED <<schedule, weeklyVars, masterVars, restVars, moreVars>>

\* create_daily_schedule, line 442
GenerateAccurateSchedule ==
    /\ d_pc = "collected"
    /\ schedule' = generate_accurate_schedule(all_tasks)
    /\ d_pc' = "scheduled"
    /\ UNCHANGED <<all_tasks, weeklyVars, masterVars, restVars, moreVars>>

DailyNext == CollectTasks \/ CollectRecurringTasks \/ GenerateAccurateSchedule

\* the warnings attached to a resolved day: generate_accurate_schedule and
\* resolve_daily_conflicts return the list of entries and nothing else
schedule_warnings == {}

-----------------------------------------------------------------------------
(* weekly_scheduler.py: WeeklySchedulePlanner.generate_accurate_weekly_    *)
(* schedule and resolve_daily_conflicts                                    *)
(*                                                                         *)
(* Days are weekday indexes, 0 = Monday.  The week starts on a Monday      *)
(* (the default start).    Estimated hours are counted in minutes.  An      *)
(* entry's name is <<kind, position>> of the row it comes from.            *)

MaxWeekItems == 2

DaysInWeek == 7

WeekTimeChoices == {<<>>, <<TimeStr(10, 0)>>}

FrequencyChoices == {"daily", "weekends"}

PreferredDaysChoices == {<<>>, <<0>>, <<2, 5>>}

GoalPriorities == {5, 9}

HoursChoices == {60, 180}

RecurringRowChoices ==
    [duration : DurationChoices, preferred_time : WeekTimeChoices,
     frequency : FrequencyChoices, priority : RecurringPriorities]

GoalChoices ==
    [hours : HoursChoices, priority : GoalPriorities,
     specific_time : WeekTimeChoices, preferred_days : PreferredDaysChoices]

ProjectChoices ==
    [hours : {60}, preferred_time : WeekTimeChoices,
     preferred_days : PreferredDaysChoices]

\* view_weekly_goals reads the goals ORDER BY priority DESC
GoalsByPriority(g) ==
    \A i \in 1..(Len(g) - 1) : g[i].priority >= g[i + 1].priority

WeekInputs ==
    UNION {{<<r, g, p>> : r \in [1..x[1] -> RecurringRowChoices],
                          g \in {y \in [1..x[2] -> GoalChoices] :
                                    GoalsByPriority(y)},
                          p \in [1..x[3] -> ProjectChoices]} :
           x \in {y \in (0..MaxWeekItems) \X (0..MaxWeekItems)
                          \X (0..MaxWeekItems) :
                     y[1] + y[2] + y[3] <= MaxWeekItems}}

\* get_recurring_tasks_for_week: the row is in weekly_recurring[day_name]
IncludedOn(row, weekday) ==
    \/ row.frequency = "daily"
    \/ row.frequency = "weekdays" /\ weekday < 5
    \/ row.frequency = "weekends" /\ weekday >= 5
    \/ row.frequency = "weekly"

DefaultRecurringTime == TimeStr(9, 0)

DefaultGoalTime == TimeStr(10, 0)

DefaultProjectTime == TimeStr(14, 0)

DefaultGoalDays == <<0, 1, 2, 3, 4>>

\* the hours of one day, hours / len(days), reach 0.5
HalfHourOrMore(hours, days) == hours >= 30 * Len(days)

\* int((hours / len(days)) * 60)
DailyMinutes(hours, days) == hours \div Len(days)

InDays(weekday, days) == \E i \in 1..Len(days) : days[i] = weekday

\* lines 414-425
RecurringEntries(rows, weekday) ==
    LET idx == SelectSeq([i \in 1..Len(rows) |-> i],
                         LAMBDA i : IncludedOn(rows[i], weekday))
    IN  [k \in 1..Len(idx) |->
            LET task == rows[idx[k]]
            IN  [time |-> IF task.preferred_time # <<>>
                          THEN task.preferred_time[1]
                          ELSE DefaultRecurringTime,
                 task |-> <<"recurring", idx[k]>>,
                 duration |-> task.duration,
                 type |-> "recurring",
                 priority |-> task.priority,
                 fixed_time |-> task.preferred_time # <<>>]]

GoalDays(goal) ==
    IF goal.preferred_days # <<>> THEN goal.preferred_days ELSE DefaultGoalDays

\* lines 427-444
GoalEntries(gs, weekday) ==
    LET idx == SelectSeq([i \in 1..Len(gs) |-> i],
                         LAMBDA i : /\ InDays(weekday, GoalDays(gs[i]))
                                    /\ gs[i].hours > 0
                                    /\ HalfHourOrMore(gs[i].hours,
                                                      GoalDays(gs[i])))
    IN  [k \in 1..Len(idx) |->
            LET goal == gs[idx[k]]
            IN  [time |-> IF goal.specific_time # <<>>
                          THEN goal.specific_time[1]
                          ELSE DefaultGoalTime,
                 task |-> <<"goal", idx[k]>>,
                 duration |-> DailyMinutes(goal.hours, GoalDays(goal)),
                 type |-> "goal",
                 priority |-> goal.priority,
                 fixed_time |-> goal.specific_time # <<>>]]

\* variant: every day is a task day, whatever the preferred days
TaskDaysAnyDay(task, weekday) == <<weekday>>

TaskDays(task, weekday) ==
    IF task.preferred_days # <<>> THEN task.preferred_days ELSE <<weekday>>

\* lines 446-476
ProjectEntries(ps, weekday) ==
    LET idx == SelectSeq([i \in 1..Len(ps) |-> i],
                         LAMBDA i :
                            /\ InDays(weekday, TaskDays(ps[i], weekday))
                            /\ \/ ps[i].preferred_time # <<>>
                               \/ HalfHourOrMore(ps[i].hours,
                                                 TaskDays(ps[i], weekday)))
    IN  [k \in 1..Len(idx) |->
            LET task == ps[idx[k]]
            IN  IF task.preferred_time # <<>>
                THEN [time |-> task.preferred_time[1],
                      task |-> <<"project", idx[k]>>,
                      duration |-> task.hours,
                      type |-> "project", priority |-> 5,
                      fixed_time |-> TRUE]
                ELSE [time |-> DefaultProjectTime,
                      task |-> <<"project", idx[k]>>,
                      duration |-> DailyMinutes(task.hours,
                                                TaskDays(task, weekday)),
                      type |-> "project", priority |-> 5,
                      fixed_time |-> FALSE]]

\* sort key (not x['fixed_time'], x['time'])
FixedThenTime(a, b) ==
    \/ a.fixed_time /\ ~b.fixed_time
    \/ a.fixed_time = b.fixed_time /\ StrLess(a.time, b.time)

\* daily_schedule of one day, sorted (lines 412-479)
BuildDailySchedule(rows, gs, ps, weekday) ==
    StableSort(RecurringEntries(rows, weekday) \o GoalEntries(gs, weekday)
                   \o ProjectEntries(ps, weekday),
               FixedThenTime)

work_hours ==
    <<TimeStr(8, 0), TimeStr(9, 0), TimeStr(10, 0), TimeStr(11, 0),
      TimeStr(13, 0), TimeStr(14, 0), TimeStr(15, 0), TimeStr(16, 0),
      TimeStr(17, 0)>>

HasFixedTime(e) == e.fixed_time

HasNoFixedTime(e) == ~e.fixed_time

\* find_available_weekly_slots
find_available_weekly_slots(fixed_tasks) ==
    LET taken_times == {fixed_tasks[i].time : i \in 1..Len(fixed_tasks)}
    IN  SelectSeq(work_hours, LAMBDA time_slot : time_slot \notin taken_times)

\* variant: a fixed entry whose time is already taken is not kept
KeptFixedDistinct(daily_schedule) ==
    LET fixed == SelectSeq(daily_schedule, HasFixedTime)
        idx == SelectSeq([i \in 1..Len(fixed) |-> i],
                         LAMBDA i : \A j \in 1..(i - 1) :
                                        fixed[j].time # fixed[i].time)
    IN  [k \in 1..Len(idx) |-> fixed[idx[k]]]

\* fixed_tasks, kept as they are
KeptFixed(daily_schedule) == SelectSeq(daily_schedule, HasFixedTime)

\* resolve_daily_conflicts(daily_schedule, date)
resolve_daily_conflicts(daily_schedule) ==
    LET fixed_tasks == KeptFixed(daily_schedule)
        flexible_tasks == SelectSeq(daily_schedule, HasNoFixedTime)
        available_slots == IF flexible_tasks # <<>>
                           THEN find_available_weekly_slots(fixed_tasks)
                           ELSE <<>>
        placed == Min2(Len(flexible_tasks), Len(available_slots))
    IN  StableSort(
            fixed_tasks
            \o [i \in 1..placed |->
                    [flexible_tasks[i] EXCEPT !.time = available_slots[i]]],
            EntryTimeLess)

\* create_weekly_schedule, lines 310-380: the recurring rows, the goals and
\* the projects are read and handed to generate_accurate_weekly_schedule
CollectWeek ==
    /\ w_pc = "start"
    /\ d_pc = "start"
    /\ \E rgp \in WeekInputs :
          /\ weekly_recurring' = rgp[1]
          /\ goals' = rgp[2]
          /\ additional_tasks' = rgp[3]
    /\ w_pc' = "days"
    /\ UNCHANGED <<day_offset, built_days, resolved_days, dailyVars,
                   masterVars, restVars, moreVars>>

\* one iteration of the loop over the seven days, lines 408-484
ResolveDay ==
    /\ w_pc = "days"
    /\ day_offset < DaysInWeek
    /\ LET daily_schedule ==
              BuildDailySchedule(weekly_recurring, goals, additional_tasks,
                                 day_offset)
       IN  /\ built_days' = Append(built_days, daily_schedule)
           /\ resolved_days' =
                 Append(resolved_days, resolve_daily_conflicts(daily_schedule))
    /\ day_offset' = day_offset + 1
    /\ UNCHANGED <<w_pc, weekly_recurring, goals, additional_tasks, dailyVars,
                   masterVars, restVars, moreVars>>

\* line 486
ReturnWeek ==
    /\ w_pc = "days"
    /\ day_offset = DaysInWeek
    /\ w_pc' = "returned"
    /\ UNCHANGED <<weekly_recurring, goals, additional_tasks, day_offset,
                   built_days, resolved_days, dailyVars, masterVars,
                   restVars, moreVars>>

WeeklyNext == CollectWeek \/ ResolveDay \/ ReturnWeek

DayNext == DailyNext \/ WeeklyNext

-----------------------------------------------------------------------------
(* master_jarvis.py: MasterJarvis.add_recurring_task and                   *)
(* _generate_recurring_instances                                           *)
(*                                                                         *)
(* A date is counted in steps from the start date datetime.now().date():   *)
(* in days for the patterns 'daily', 'weekly' and 'biweekly', in months    *)
(* for 'monthly'.  An end date e is the last such date that is not after   *)
(* the end date typed in.  The year of the start date is not a leap year.  *)

MaxGiven == 3

\* while count < (max_occurrences or 50)
DefaultCap == 50

\* max_occurrences = 10  # Default
DefaultOccurrences == 10

PatternChoices == {"daily", "weekly", "biweekly", "monthly"}

\* the answer to 'number of occurrences or end date': an integer, a date,
\* or neither
DurationTypeChoices ==
    [kind : {"number"}, value : (0 - 1)..MaxGiven]
    \cup [kind : {"date"}, value : (0 - 1)..MaxGiven]
    \cup [kind : {"invalid"}, value : {0}]

StartWeekdayChoices == {0, 4, 5}

\* max_occurrences or 50: 0 and None are both false
LoopLimit ==
    IF max_occurrences # <<>> /\ max_occurrences[1] # 0
    THEN max_occurrences[1]
    ELSE DefaultCap

\* end_date is given and current_date > end_dt
PastEndDate == end_date # <<>> /\ current_date > end_date[1]

\* current_date.weekday(), for a date counted in days
WeekdayOf(date) == (start_weekday + date) % DaysInWeek

StartDayChoices == {15, 31}

StartMonthChoices == {1, 12}

\* the month of a date counted in months from the start date
MonthOf(date) == ((start_month - 1 + date) % 12) + 1

DaysInMonth(month) ==
    IF month = 2 THEN 28
    ELSE IF month \in {4, 6, 9, 11} THEN 30
    ELSE 31

\* current_date.replace(month=...) raises ValueError: the next month has no
\* such day
ReplaceRaises(date) ==
    /\ pattern = "monthly"
    /\ start_day > DaysInMonth(MonthOf(date + 1))

\* the step to the next occurrence
NextOccurrence(date) ==
    IF pattern = "daily" THEN date + 1
    ELSE IF pattern = "weekly" THEN date + 7
    ELSE IF pattern = "biweekly" THEN date + 14
    ELSE IF pattern = "monthly" THEN date + 1
    ELSE date

\* add_recurring_task, lines 1138-1170 and 1210-1214: the pattern and the
\* duration are read and _generate_recurring_instances is entered
AddRecurringTask ==
    /\ gi_pc = "start"
    /\ pattern' \in PatternChoices
    /\ start_weekday' \in StartWeekdayChoices
    /\ start_day' \in StartDayChoices
    /\ start_month' \in StartMonthChoices
    /\ \E duration_type \in DurationTypeChoices :
          /\ max_occurrences' =
                IF duration_type.kind = "number" THEN <<duration_type.value>>
                ELSE IF duration_type.kind = "date" THEN <<>>
                ELSE <<DefaultOccurrences>>
          /\ end_date' =
                IF duration_type.kind = "date" THEN <<duration_type.value>>
                ELSE <<>>
    /\ current_date' = 0
    /\ count' = 0
    /\ instances' = <<>>
    /\ gi_pc' = "loop"
    /\ UNCHANGED <<moreVars, coreVars, recurVars, createVars, timeVars>>

\* one iteration that skips a weekend day of a daily task (lines 1243-1245)
SkipWeekend ==
    /\ gi_pc = "loop"
    /\ count < LoopLimit
    /\ ~PastEndDate
    /\ pattern = "daily"
    /\ WeekdayOf(current_date) >= 5
    /\ current_date' = current_date + 1
    /\ UNCHANGED <<gi_pc, pattern, end_date, max_occurrences, start_weekday,
                   start_day, start_month, count, instances, moreVars, coreVars, recurVars, createVars,
                   timeVars>>

\* one iteration that creates an instance (lines 1247-1284); the instance
\* is stored before the next occurrence is computed
CreateInstance ==
    /\ gi_pc = "loop"
    /\ count < LoopLimit
    /\ ~PastEndDate
    /\ ~(pattern = "daily" /\ WeekdayOf(current_date) >= 5)
    /\ instances' = Append(instances, current_date)
    /\ count' = count + 1
    /\ IF ReplaceRaises(current_date)
       THEN gi_pc' = "raised" /\ UNCHANGED current_date
       ELSE current_date' = NextOccurrence(current_date) /\ UNCHANGED gi_pc
    /\ UNCHANGED <<pattern, end_date, max_occurrences, start_weekday,
                   start_day, start_month,
                   moreVars, coreVars, recurVars, createVars, timeVars>>

\* the loop ends: the condition fails or the break is taken (line 1286)
ReturnInstances ==
    /\ gi_pc = "loop"
    /\ count >= LoopLimit \/ PastEndDate
    /\ gi_pc' = "returned"
    /\ UNCHANGED <<pattern, end_date, max_occurrences, start_weekday,
                   start_day, start_month, current_date, count, instances, moreVars, coreVars, recurVars,
                   createVars, timeVars>>

InstancesNext ==
    AddRecurringTask \/ SkipWeekend \/ CreateInstance \/ ReturnInstances

-----------------------------------------------------------------------------
(* master_jarvis.py: the task-creation operations of MasterJarvis that     *)
(* store urgency and importance through TaskDatabase.add_task              *)
(*                                                                         *)
(* A typed answer is <<>> for the empty line, <<n>> for text that int()    *)
(* reads as n, and NotANumber for text that int() rejects.  A stored row   *)
(* is [urgency, importance].                                               *)

MaxStoredTasks == 2

\* the default '5' of every prompt
DefaultScore == 5

TypedNumbers == {0 - 1, 0, 1, 5, 10, 11}

NotANumber == <<0, 0>>

TypedChoices == {<<>>, NotANumber} \cup {<<n>> : n \in TypedNumbers}

\* the values an AI-parsed dict holds under 'urgency' / 'importance'; <<>>
\* when the key is absent
ParsedChoices == {<<>>} \cup {<<n>> : n \in TypedNumbers}

\* int(answer) raises ValueError
RaisesValueError(answer) == answer = NotANumber

\* int(answer) if answer else 5, and int(answer or "5")
IntOrDefault(answer) == IF answer = <<>> THEN DefaultScore ELSE answer[1]

\* max(1, min(10, n)), and min(10, max(1, n))
Clamp(n) == Max2(1, Min2(10, n))

\* TaskDatabase.add_task: the row is inserted as given
add_task(table, urgency, importance) ==
    Append(table, [urgency |-> urgency, importance |-> importance])

\* priority_total as get_tasks selects it
priority_total(row) == row.urgency + row.importance

\* add_intelligent_task, lines 536-555 and 572-580
AddIntelligentTask ==
    /\ Len(stored_tasks) < MaxStoredTasks
    /\ \E urgency_input, importance_input \in TypedChoices :
          stored_tasks' =
              IF RaisesValueError(urgency_input)
                    \/ RaisesValueError(importance_input)
              THEN add_task(stored_tasks, DefaultScore, DefaultScore)
              ELSE add_task(stored_tasks,
                            Clamp(IntOrDefault(urgency_input)),
                            Clamp(IntOrDefault(importance_input)))
    /\ UNCHANGED <<moreVars, coreVars, recurVars, instVars, timeVars>>

\* _create_task_from_parsed_data, lines 691-700
CreateTaskFromParsedData ==
    /\ Len(stored_tasks) < MaxStoredTasks
    /\ \E urgency_value, importance_value \in ParsedChoices :
          stored_tasks' = add_task(stored_tasks,
                                   Clamp(IntOrDefault(urgency_value)),
                                   Clamp(IntOrDefault(importance_value)))
    /\ UNCHANGED <<moreVars, coreVars, recurVars, instVars, timeVars>>

\* _create_task_manually, lines 714-738; a ValueError of int() leaves the
\* function before add_task
CreateTaskManually ==
    /\ Len(stored_tasks) < MaxStoredTasks
    /\ \E urgency_input, importance_input \in TypedChoices :
          /\ ~RaisesValueError(urgency_input)
          /\ ~RaisesValueError(importance_input)
          /\ stored_tasks' = add_task(stored_tasks,
                                      IntOrDefault(urgency_input),
                                      IntOrDefault(importance_input))
    /\ UNCHANGED <<moreVars, coreVars, recurVars, instVars, timeVars>>

\* _structured_task_creation, lines 767-788
StructuredTaskCreation ==
    /\ Len(stored_tasks) < MaxStoredTasks
    /\ \E urgency_input, importance_input \in TypedChoices :
          stored_tasks' =
              IF RaisesValueError(urgency_input)
                    \/ RaisesValueError(importance_input)
              THEN add_task(stored_tasks, DefaultScore, DefaultScore)
              ELSE add_task(stored_tasks,
                            IntOrDefault(urgency_input),
                            IntOrDefault(importance_input))
    /\ UNCHANGED <<moreVars, coreVars, recurVars, instVars, timeVars>>

\* add_recurring_task, lines 1176-1208: the parent task
AddRecurringParent ==
    /\ Len(stored_tasks) < MaxStoredTasks
    /\ \E urgency_input, importance_input \in TypedChoices :
          stored_tasks' =
              IF RaisesValueError(urgency_input)
                    \/ RaisesValueError(importance_input)
              THEN add_task(stored_tasks, DefaultScore, DefaultScore)
              ELSE add_task(stored_tasks,
                            Clamp(IntOrDefault(urgency_input)),
                            Clamp(IntOrDefault(importance_input)))
    /\ UNCHANGED <<moreVars, coreVars, recurVars, instVars, timeVars>>

CreateNext ==
    \/ AddIntelligentTask
    \/ CreateTaskFromParsedData
    \/ CreateTaskManually
    \/ StructuredTaskCreation
    \/ AddRecurringParent

-----------------------------------------------------------------------------
(* extract_time_from_description of DailyScheduleCreator and of            *)
(* WeeklySchedulePlanner (the two methods have the same body)              *)
(*                                                                         *)
(* A description is kept as what the first matching time pattern captures: *)
(* <<>> when no pattern matches, else <<[hour, minute, period]>> with the  *)
(* numbers read by (\d{1,2}) and (\d{2}) and the period in upper case.     *)

\* the largest number two digits write
TwoDigitMax == 99

DescriptionChoices ==
    {<<>>} \cup {<<m>> : m \in [hour : 0..TwoDigitMax,
                               minute : 0..TwoDigitMax,
                               period : {"AM", "PM"}]}

\* the conversion to 24-hour format
Hour24(hour, period) ==
    IF period = "PM" /\ hour # 12 THEN hour + 12
    ELSE IF period = "AM" /\ hour = 12 THEN 0
    ELSE hour

\* extract_time_from_description(description)
extract_time_from_description(text) ==
    IF text = <<>> THEN <<>>
    ELSE <<TimeStr(Hour24(text[1].hour, text[1].period), text[1].minute)>>

\* a task or goal description is typed in
TypeDescription ==
    /\ et_pc = "start"
    /\ description' \in DescriptionChoices
    /\ et_pc' = "typed"
    /\ UNCHANGED <<extracted_time, moreVars, coreVars, recurVars, instVars, createVars>>

\* create_daily_schedule, line 413
ExtractTimeDaily ==
    /\ et_pc = "typed"
    /\ extracted_time' = extract_time_from_description(description)
    /\ et_pc' = "daily"
    /\ UNCHANGED <<description, moreVars, coreVars, recurVars, instVars, createVars>>

\* add_weekly_goal, line 213, and create_weekly_schedule, line 350
ExtractTimeWeekly ==
    /\ et_pc = "typed"
    /\ extracted_time' = extract_time_from_description(description)
    /\ et_pc' = "weekly"
    /\ UNCHANGED <<description, moreVars, coreVars, recurVars, instVars, createVars>>

ExtractNext == TypeDescription \/ ExtractTimeDaily \/ ExtractTimeWeekly

-----------------------------------------------------------------------------
(* master_jarvis.py: MasterJarvis.create_daily_schedule, the time blocks   *)
(*                                                                         *)
(* Hours are counted in minutes here (current_hour = 9.25 is 555), and the *)
(* estimates are multiples of a quarter of an hour.  A task is             *)
(* [title, priority_total, est_time]; the title is its position in the     *)
(* list.  An entry's time "HH:00-HH:00" is kept as [from, to], the two     *)
(* hour numbers written.                                                   *)

MaxBlocksWide == 3

MaxBlocksDeep == 9

\* the top 8 priority tasks: safe_tasks[:8]
TopTasks == 8

\* min(time_needed, 3)
MaxBlockMinutes == 180

\* time_needed < 0.5
MinBlockMinutes == 30

\* end_time + 0.25
BlockBufferMinutes == 15

\* the work hours typed in, "start-end"; "9-17" by default
WorkHoursChoices == {<<9, 17>>, <<9, 11>>, <<13, 9>>}

BlockEstChoices == {0, 15, 30, 60, 240}

WideBlockTasks == [priority_total : {8, 16}, est_time : BlockEstChoices]

DeepBlockTasks == [priority_total : {8}, est_time : {30, 45}]

\* get_tasks returns the rows ORDER BY priority_total DESC
ByPriorityTotal(s) ==
    \A i \in 1..(Len(s) - 1) : s[i].priority_total >= s[i + 1].priority_total

WithBlockTitles(s) ==
    [i \in 1..Len(s) |->
        [title |-> i, priority_total |-> s[i].priority_total,
         est_time |-> s[i].est_time]]

\* est_time if est_time > 0 else (2 if priority_total >= 16 else 1.5),
\* capped at 3 hours
TimeNeeded(task) ==
    Min2(IF task.est_time > 0 THEN task.est_time
         ELSE IF task.priority_total >= 16 THEN 120 ELSE 90,
         MaxBlockMinutes)

\* the end of the block, cut at end_hour
EndTime(task) == Min2(current_hour + TimeNeeded(task), block_end_hour)

\* time_needed after the cut at end_hour
TimeNeededCut(task) ==
    IF current_hour + TimeNeeded(task) > block_end_hour
    THEN block_end_hour - current_hour
    ELSE TimeNeeded(task)

\* f"{x:02.0f}": the hour rounded to the nearest whole number, a half going
\* to the even neighbour
FormatHour(x) ==
    LET h == x \div 60
        r == x % 60
    IN  IF r < 30 THEN h
        ELSE IF r > 30 THEN h + 1
        ELSE IF h % 2 = 0 THEN h ELSE h + 1

\* f"{current_hour:02.0f}:{00:02.0f}-{end_time:02.0f}:{00:02.0f}"
BlockTime(start, end) == [from |-> FormatHour(start), to |-> FormatHour(end)]

\* the position of the loop over safe_tasks[:8]
NextBlockTask == Len(scheduled_tasks) + 1

\* the loop goes on: a task is left, the window is not used up, and the
\* block is not under half an hour
BlockLoopRuns ==
    /\ NextBlockTask <= Min2(TopTasks, Len(safe_tasks))
    /\ current_hour < block_end_hour
    /\ TimeNeededCut(safe_tasks[NextBlockTask]) >= MinBlockMinutes

\* lines 1844-1928: the pending tasks and the work hours are read
ConfigureSchedule ==
    /\ cd_pc = "start"
    /\ \E n \in 1..MaxBlocksDeep :
          \E tasks \in [1..n -> DeepBlockTasks]
                          \cup (IF n <= MaxBlocksWide
                                THEN [1..n -> WideBlockTasks] ELSE {}) :
              /\ ByPriorityTotal(tasks)
              /\ safe_tasks' = WithBlockTitles(tasks)
    /\ \E typed_hours \in WorkHoursChoices :
          /\ block_start_hour' = typed_hours[1] * 60
          /\ block_end_hour' = typed_hours[2] * 60
          /\ current_hour' = typed_hours[1] * 60
    /\ scheduled_tasks' = <<>>
    /\ cd_pc' = "loop"
    /\ UNCHANGED <<coreVars, restVars, storeVars, dateVars, projectVars>>

\* one iteration of the loop of lines 1933-1967 that makes a block
ScheduleBlock ==
    /\ cd_pc = "loop"
    /\ BlockLoopRuns
    /\ LET task == safe_tasks[NextBlockTask]
       IN  /\ scheduled_tasks' =
                 Append(scheduled_tasks,
                        [time |-> BlockTime(current_hour, EndTime(task)),
                         task |-> task.title,
                         priority |-> task.priority_total])
           /\ current_hour' = EndTime(task) + BlockBufferMinutes
    /\ UNCHANGED <<cd_pc, safe_tasks, block_start_hour, block_end_hour,
                   coreVars, restVars, storeVars, dateVars, projectVars>>

\* the loop ends: the list is used up, or one of the two break statements
\* is taken (lines 1934-1935 and 1951-1952)
LeaveBlockLoop ==
    /\ cd_pc = "loop"
    /\ ~BlockLoopRuns
    /\ cd_pc' = "done"
    /\ UNCHANGED <<safe_tasks, block_start_hour, block_end_hour,
                   current_hour, scheduled_tasks, coreVars, restVars, storeVars, dateVars, projectVars>>

BlocksNext == ConfigureSchedule \/ ScheduleBlock \/ LeaveBlockLoop

-----------------------------------------------------------------------------
(* schedule_manager.py: ScheduleManager                                    *)
(*                                                                         *)
(* A schedule is the dict {'schedule': [...], 'total_time': ...}, kept as  *)
(* [schedule, total_time] with total_time = <<>> when the key is absent.   *)
(* The JSON text of a dict is the sequence of its <<key, value>> members.  *)
(* A row is [name, schedule_data, tasks_count, total_time]; created_at is  *)
(* left out.  A value returned is <<>> for None and <<v>> otherwise.       *)

MaxSaves == 3

ScheduleDataChoices ==
    {[schedule |-> <<>>, total_time |-> <<>>],
     [schedule |-> <<"standup">>, total_time |-> <<"30 min">>],
     [schedule |-> <<"standup", "review">>, total_time |-> <<"2 h">>]}

NameChoices == {<<>>, <<"plan">>}

\* f"Schedule {now}", the name given when name is None
DefaultName == "Schedule"

\* json.dumps(schedule_data)
JsonDumps(data) ==
    <<<<"schedule", data.schedule>>>>
    \o (IF data.total_time # <<>>
        THEN <<<<"total_time", data.total_time[1]>>>>
        ELSE <<>>)

\* the value of the member `key` of a JSON object, <<>> when it has none
Member(text, key) ==
    LET at == {i \in 1..Len(text) : text[i][1] = key}
    IN  IF at = {} THEN <<>> ELSE <<text[CHOOSE i \in at : TRUE][2]>>

\* json.loads(text)
JsonLoads(text) ==
    [schedule |-> Member(text, "schedule")[1],
     total_time |-> Member(text, "total_time")]

\* variant: a plain INTEGER PRIMARY KEY, one more than the largest id in
\* the table
NextIdAfterLargestRow ==
    IF DOMAIN schedules = {} THEN 1
    ELSE (CHOOSE i \in DOMAIN schedules :
              \A j \in DOMAIN schedules : i >= j) + 1

\* INTEGER PRIMARY KEY AUTOINCREMENT: one more than the largest id the table
\* has ever held
NextId == sqlite_sequence + 1

\* the row save_schedule inserts
ScheduleRow(data, name) ==
    [name |-> IF name = <<>> THEN DefaultName ELSE name[1],
     schedule_data |-> JsonDumps(data),
     tasks_count |-> Len(data.schedule),
     total_time |-> IF data.total_time # <<>> THEN data.total_time[1]
                    ELSE "Unknown"]

\* the table without the rows WHERE id = schedule_id
WithoutId(table, schedule_id) ==
    [i \in DOMAIN table \ {schedule_id} |-> table[i]]

\* get_schedule(schedule_id)
get_schedule(schedule_id) ==
    IF schedule_id \in DOMAIN schedules
    THEN <<[id |-> schedule_id,
            name |-> schedules[schedule_id].name,
            schedule_data |-> JsonLoads(schedules[schedule_id].schedule_data),
            tasks_count |-> schedules[schedule_id].tasks_count,
            total_time |-> schedules[schedule_id].total_time]>>
    ELSE <<>>

\* the ids a caller may ask for: those ever returned, and one never returned
AskedIds == 1..(MaxSaves + 1)

\* save_schedule(schedule_data, name)
SaveSchedule ==
    /\ sqlite_sequence < MaxSaves
    /\ \E schedule_data \in ScheduleDataChoices, name \in NameChoices :
          /\ schedules' = (NextId :> ScheduleRow(schedule_data, name))
                            @@ schedules
          /\ handed' = (NextId :> schedule_data) @@ handed
    /\ sqlite_sequence' = NextId
    /\ returned' = [call |-> "save", id |-> NextId, value |-> <<NextId>>]
    /\ UNCHANGED <<deleted, coreVars, restVars, blockVars, dateVars, projectVars>>

\* get_schedule(schedule_id)
GetSchedule ==
    /\ \E schedule_id \in AskedIds :
          returned' = [call |-> "get", id |-> schedule_id,
                       value |-> get_schedule(schedule_id)]
    /\ UNCHANGED <<schedules, sqlite_sequence, handed, deleted, coreVars,
                   restVars, blockVars, dateVars, projectVars>>

\* delete_schedule(schedule_id)
DeleteSchedule ==
    /\ \E schedule_id \in AskedIds :
          /\ schedules' = WithoutId(schedules, schedule_id)
          /\ deleted' = IF schedule_id \in DOMAIN schedules
                        THEN deleted \cup {schedule_id} ELSE deleted
          /\ returned' = [call |-> "delete", id |-> schedule_id,
                          value |-> <<schedule_id \in DOMAIN schedules>>]
    /\ UNCHANGED <<sqlite_sequence, handed, coreVars, restVars, blockVars, dateVars, projectVars>>

StoreNext == SaveSchedule \/ GetSchedule \/ DeleteSchedule

-----------------------------------------------------------------------------
(* Expansion of the recurring definitions:                                 *)
(* DailyScheduleCreator.get_recurring_tasks_for_date and                   *)
(* WeeklySchedulePlanner.get_recurring_tasks_for_week, which read the same *)
(* table recurring_tasks of data/jarvis.db.                                *)
(*                                                                         *)
(* A row is [frequency, frequency_details]; its task name is its position  *)
(* in the table.  frequency_details is kept as the list of the day names   *)
(* that occur in the text, each [day, capital]: the weekday index, and     *)
(* whether the name is spelled as strftime("%A") spells it ("Monday").     *)

MaxRecurringRows == 2

Mention(day, capital) == [day |-> day, capital |-> capital]

\* rows as add_recurring_task writes them (specific_days with names taken
\* from day_names, custom with free text), a legacy 'weekly' row, and a row
\* with a frequency none of the branches names
TableRowChoices ==
    [frequency : {"daily", "weekdays", "weekends", "weekly", "monthly"},
     frequency_details : {<<>>}]
    \cup [frequency : {"specific_days"},
          frequency_details : {<<Mention(0, TRUE)>>,
                               <<Mention(2, TRUE), Mention(5, TRUE)>>}]
    \cup [frequency : {"custom"},
          frequency_details : {<<>>, <<Mention(0, FALSE)>>,
                               <<Mention(5, TRUE)>>}]

\* day_name in freq_details
DayNameIn(weekday, freq_details) ==
    \E i \in 1..Len(freq_details) :
        freq_details[i].day = weekday /\ freq_details[i].capital

\* day_name.lower() in freq_details.lower()
DayNameInLowered(weekday, freq_details) ==
    \E i \in 1..Len(freq_details) : freq_details[i].day = weekday

\* include_task of get_recurring_tasks_for_date
IncludedOnDate(row, weekday) ==
    IF row.frequency = "daily" THEN TRUE
    ELSE IF row.frequency = "weekdays" /\ weekday < 5 THEN TRUE
    ELSE IF row.frequency = "weekends" /\ weekday >= 5 THEN TRUE
    ELSE IF row.frequency = "specific_days"
         THEN row.frequency_details # <<>>
              /\ DayNameIn(weekday, row.frequency_details)
    ELSE IF row.frequency = "custom"
         THEN row.frequency_details # <<>>
              /\ DayNameInLowered(weekday, row.frequency_details)
    ELSE IF row.frequency = "weekly" THEN TRUE
    ELSE FALSE

\* get_recurring_tasks_for_date: the names of the applicable tasks
get_recurring_tasks_for_date(rows, weekday) ==
    SelectSeq([i \in 1..Len(rows) |-> i],
              LAMBDA i : IncludedOnDate(rows[i], weekday))

\* get_recurring_tasks_for_week: per day of the week, the names of the
\* tasks of daily_recurring
get_recurring_tasks_for_week(rows) ==
    [weekday \in 0..(DaysInWeek - 1) |->
        SelectSeq([i \in 1..Len(rows) |-> i],
                  LAMBDA i : IncludedOn(rows[i], weekday))]

\* the SELECT ... WHERE is_active = 1 of either function
ReadRecurringTable ==
    /\ rc_pc = "start"
    /\ \E n \in 0..MaxRecurringRows :
          \E rows \in [1..n -> TableRowChoices] : recurring_table' = rows
    /\ rc_pc' = "read"
    /\ UNCHANGED <<target_weekday, applicable_tasks, week_recurring,
                   moreVars, coreVars, instVars, createVars, timeVars>>

GetRecurringTasksForDate ==
    /\ rc_pc = "read"
    /\ \E weekday \in 0..(DaysInWeek - 1) :
          /\ target_weekday' = weekday
          /\ applicable_tasks' =
                get_recurring_tasks_for_date(recurring_table, weekday)
    /\ rc_pc' = "date"
    /\ UNCHANGED <<recurring_table, week_recurring,
                   moreVars, coreVars, instVars, createVars, timeVars>>

GetRecurringTasksForWeek ==
    /\ rc_pc = "read"
    /\ week_recurring' = get_recurring_tasks_for_week(recurring_table)
    /\ rc_pc' = "week"
    /\ UNCHANGED <<recurring_table, target_weekday, applicable_tasks,
                   moreVars, coreVars, instVars, createVars, timeVars>>

RecurNext ==
    ReadRecurringTable \/ GetRecurringTasksForDate \/ GetRecurringTasksForWeek

-----------------------------------------------------------------------------
(* master_jarvis.py: MasterJarvis._generate_weekly_schedule                *)
(*                                                                         *)
(* A task is [title, est_time, priority_total, energy_level,               *)
(* days_until_due]; days_until_due is <<>> for None and <<d>> for the      *)
(* integer d.  The title is the task's position in the pool, so that the   *)
(* tasks of a pool are told apart.                                         *)

\* Bounds of the explored pools.
MaxPoolWide == 3

MaxPoolDeep == 6

WorkDayLength == 2

\* smart_weekly_planner's default start of the work window.
DefaultStartHour == 9

\* daily_capacity = (end_hour - start_hour) * 0.8, in tenths of an hour
UtilizationTenths == 8

EstChoices == {10, 20}

PriorityChoices == {8, 12}

EnergyChoices == {"high", "medium"}

DueChoices == {<<>>, <<0>>, <<1>>, <<2>>, <<4>>}

WideTasks ==
    [est_time : EstChoices, priority_total : PriorityChoices,
     energy_level : {"medium"}, days_until_due : DueChoices]

DeepTasks ==
    [est_time : EstChoices, priority_total : {8},
     energy_level : {"medium"}, days_until_due : {<<>>}]
    \cup [est_time : {10}, priority_total : {8},
          energy_level : {"medium"}, days_until_due : {<<3>>, <<4>>}]

\* pools that vary what the sort key reads: energy level, priority, and a
\* deadline that is absent, inside the week or after it
RankTasks ==
    [est_time : {5}, priority_total : PriorityChoices,
     energy_level : EnergyChoices, days_until_due : {<<>>, <<2>>, <<8>>}]

WithTitles(s) ==
    [i \in 1..Len(s) |->
        [title |-> i, est_time |-> s[i].est_time,
         priority_total |-> s[i].priority_total,
         energy_level |-> s[i].energy_level,
         days_until_due |-> s[i].days_until_due]]

PoolInputs ==
    {WithTitles(s) : s \in SeqsUpTo(WideTasks, MaxPoolWide)
                          \cup SeqsUpTo(DeepTasks, MaxPoolDeep)
                          \cup SeqsUpTo(RankTasks, MaxPoolWide)}

\* variant: the week has an entry for each of the seven days
SevenDays == 0..6

\* the list weekdays: Monday .. Friday, by index
weekdays == 0..4

HasDue(task) == task.days_until_due # <<>>

Due(task) == task.days_until_due[1]

\* variant: a task without a deadline scores like a task due after the week
DeadlinePriorityTenWithoutDeadline(task) ==
    IF HasDue(task)
    THEN IF Due(task) <= 0 THEN 1000
         ELSE IF Due(task) <= 7 THEN 100 - Due(task)
         ELSE 10
    ELSE 10

\* sort_key: deadline_priority
DeadlinePriority(task) ==
    IF HasDue(task)
    THEN IF Due(task) <= 0 THEN 1000
         ELSE IF Due(task) <= 7 THEN 100 - Due(task)
         ELSE 10
    ELSE 0

\* variant: the deadline priority taken into the key without its minus sign
SortKeyAscendingDeadline(task) ==
    <<DeadlinePriority(task), 0 - task.priority_total,
      IF task.energy_level # "high" THEN 1 ELSE 0>>

\* sort_key(task) as a tuple; the Boolean energy_level != 'high' as 0/1
sort_key(task) ==
    <<0 - DeadlinePriority(task), 0 - task.priority_total,
      IF task.energy_level # "high" THEN 1 ELSE 0>>

\* Python's tuple comparison a < b
TupleLess(a, b) ==
    \E i \in 1..Len(a) :
        /\ a[i] < b[i]
        /\ \A j \in 1..(i - 1) : a[j] = b[j]

\* variant: x inserted before the first element whose key is not less than
\* x's, so that equal keys come out in reverse pool order
InsertBeforeEqualKey(s, x) ==
    LET later == {i \in 1..Len(s) : ~TupleLess(sort_key(s[i]), sort_key(x))}
        p == IF later = {} THEN Len(s) + 1
             ELSE CHOOSE i \in later : \A j \in later : i <= j
    IN  SubSeq(s, 1, p - 1) \o <<x>> \o SubSeq(s, p, Len(s))

\* x inserted before the first element whose key is greater than x's
InsertByKey(s, x) ==
    LET later == {i \in 1..Len(s) : TupleLess(sort_key(x), sort_key(s[i]))}
        p == IF later = {} THEN Len(s) + 1
             ELSE CHOOSE i \in later : \A j \in later : i <= j
    IN  SubSeq(s, 1, p - 1) \o <<x>> \o SubSeq(s, p, Len(s))

RECURSIVE SortedPrefix(_, _)
\* sorted(tasks[:n], key=sort_key): stable, ties keep pool order
SortedPrefix(tasks, n) ==
    IF n = 0 THEN <<>> ELSE InsertByKey(SortedPrefix(tasks, n - 1), tasks[n])

SortedTasks(tasks) == SortedPrefix(tasks, Len(tasks))

DailyCapacity == (end_hour - start_hour) * UtilizationTenths

\* variant: the capacity test without the task's own est_time
FitsIgnoringEstimate(task, ws, d, capacity) == ws[d].total_hours <= capacity

\* the capacity test of _find_best_day_for_task
Fits(task, ws, d, capacity) == ws[d].total_hours + task.est_time <= capacity

NoDay == 0 - 1

\* variant: no fallback to the least full day; None when no day has room
FindBestDayNoFallback(task, ws, capacity) ==
    LET target == IF HasDue(task) THEN Min2(Due(task), 4) ELSE 0
        window == IF HasDue(task)
                  THEN {d \in weekdays :
                          /\ Max2(0, target - 1) <= d
                          /\ d < Min2(5, target + 2)
                          /\ Fits(task, ws, d, capacity)}
                  ELSE {}
        scan == {d \in weekdays : Fits(task, ws, d, capacity)}
        first(S) == CHOOSE d \in S : \A e \in S : d <= e
    IN  IF window # {} THEN [day |-> first(window), how |-> "window"]
        ELSE IF scan # {} THEN [day |-> first(scan), how |-> "scan"]
        ELSE [day |-> NoDay, how |-> "none"]

\* variant: the fallback takes the fullest day (max in place of min)
FindBestDayFullestFallback(task, ws, capacity) ==
    LET base == FindBestDayNoFallback(task, ws, capacity)
        fullest == CHOOSE d \in weekdays :
                      \A e \in weekdays :
                          \/ ws[d].total_hours > ws[e].total_hours
                          \/ ws[d].total_hours = ws[e].total_hours /\ d <= e
    IN  IF base.day # NoDay THEN base
        ELSE [day |-> fullest, how |-> "least_full"]

\* _find_best_day_for_task: the chosen day and the return statement taken
FindBestDay(task, ws, capacity) ==
    LET target == IF HasDue(task) THEN Min2(Due(task), 4) ELSE 0
        window == IF HasDue(task)
                  THEN {d \in weekdays :
                          /\ Max2(0, target - 1) <= d
                          /\ d < Min2(5, target + 2)
                          /\ Fits(task, ws, d, capacity)}
                  ELSE {}
        scan == {d \in weekdays : Fits(task, ws, d, capacity)}
        least == CHOOSE d \in weekdays :
                    \A e \in weekdays :
                        \/ ws[d].total_hours < ws[e].total_hours
                        \/ ws[d].total_hours = ws[e].total_hours /\ d <= e
        first(S) == CHOOSE d \in S : \A e \in S : d <= e
    IN  IF window # {} THEN [day |-> first(window), how |-> "window"]
        ELSE IF scan # {} THEN [day |-> first(scan), how |-> "scan"]
        ELSE [day |-> least, how |-> "least_full"]

\* _get_deadline_status
DeadlineStatus(task) ==
    IF ~HasDue(task) THEN "none"
    ELSE IF Due(task) <= 0 THEN "overdue"
    ELSE IF Due(task) <= 1 THEN "urgent"
    ELSE IF Due(task) <= 3 THEN "approaching"
    ELSE IF Due(task) <= 7 THEN "thisweek"
    ELSE "future"

EmptyDay == [tasks |-> <<>>, total_hours |-> 0, deadline_alerts |-> <<>>]

\* the entry appended to day_schedule['tasks']
PlacedEntry(task) ==
    [title |-> task.title, est_time |-> task.est_time,
     priority |-> task.priority_total, energy_level |-> task.energy_level,
     days_until_due |-> task.days_until_due,
     deadline_status |-> DeadlineStatus(task)]

\* the loop body's update of the chosen day
AddToDay(day_schedule, task) ==
    [tasks |-> Append(day_schedule.tasks, PlacedEntry(task)),
     total_hours |-> day_schedule.total_hours + task.est_time,
     deadline_alerts |->
        IF HasDue(task) /\ Due(task) <= 3
        THEN Append(day_schedule.deadline_alerts,
                    [title |-> task.title, days |-> Due(task)])
        ELSE day_schedule.deadline_alerts]

-----------------------------------------------------------------------------
(* master_jarvis.py: the dates of smart_weekly_planner and of the week     *)
(* structure of _generate_weekly_schedule                                  *)
(*                                                                         *)
(* A date is a number of days after Monday 1 January 2024; its text        *)
(* "%Y-%m-%d" is kept as [month, day].  The dates stay inside January and  *)
(* February 2024.                                                          *)

MaxStartDay == 27

\* how far a due date lies before or after the week start
MaxDueDistance == 8

DaysInJanuary == 31

\* date.strftime("%Y-%m-%d")
FormatDate(date) ==
    IF date < DaysInJanuary
    THEN [month |-> 1, day |-> date + 1]
    ELSE [month |-> 2, day |-> date - DaysInJanuary + 1]

\* datetime.strptime(text, "%Y-%m-%d")
ParseDate(text) ==
    IF text.month = 1 THEN text.day - 1 ELSE DaysInJanuary + text.day - 1

\* date.weekday(): 0 = Monday
Weekday(date) == date % DaysInWeek

\* 'this week': the Monday of the week of today
MondayOf(today) == today - Weekday(today)

\* _calculate_days_until_due(due_date, start_date)
calculate_days_until_due(due, start) ==
    IF due = <<>> THEN <<>> ELSE <<ParseDate(due[1]) - ParseDate(start)>>

\* lines 2341-2348: the week starting date is typed in, or 'this week' is
\* taken
ReadWeekStart ==
    /\ wp_pc = "start"
    /\ \/ \E typed \in 0..MaxStartDay : start_date' = FormatDate(typed)
       \/ \E today \in 0..MaxStartDay :
              start_date' = FormatDate(MondayOf(today))
    /\ wp_pc' = "configured"
    /\ UNCHANGED <<task_due_date, task_days_until_due, day_dates, coreVars,
                   restVars, blockVars, storeVars, projectVars>>

\* lines 2367-2394: a pending task is made into a safe task
ProcessTask ==
    /\ wp_pc = "configured"
    /\ \E due \in {<<>>} \cup
                 {<<FormatDate(d)>> :
                     d \in Max2(0, ParseDate(start_date) - 1)
                           ..(ParseDate(start_date) + MaxDueDistance)} :
          /\ task_due_date' = due
          /\ task_days_until_due' = calculate_days_until_due(due, start_date)
    /\ wp_pc' = "processed"
    /\ UNCHANGED <<start_date, day_dates, coreVars, restVars, blockVars,
                   storeVars, projectVars>>

\* _generate_weekly_schedule, lines 2491-2503: the entry of each weekday is
\* created with its date
CreateWeekStructure ==
    /\ wp_pc = "processed"
    /\ day_dates' = [i \in weekdays |-> FormatDate(ParseDate(start_date) + i)]
    /\ wp_pc' = "created"
    /\ UNCHANGED <<start_date, task_due_date, task_days_until_due, coreVars,
                   restVars, blockVars, storeVars, projectVars>>

DatesNext == ReadWeekStart \/ ProcessTask \/ CreateWeekStructure

-----------------------------------------------------------------------------
(* multi_day_scheduler.py: MultiDayScheduler.create_fallback_project_      *)
(* breakdown and save_multi_day_project                                    *)
(*                                                                         *)
(* A phase is [optimal_day_range, daily_tasks]: the first number of its    *)
(* 'optimal_day_range' (<<>> when the key is absent) and the number of its *)
(* daily tasks.  An assignment row is [date, phase].                       *)

MaxProjectDays == 4

ProjectStartChoices == {3, 30}

\* the phases of create_fallback_project_breakdown(project, days, hours)
create_fallback_project_breakdown(days) ==
    <<[optimal_day_range |-> <<1>>, daily_tasks |-> 1],
      [optimal_day_range |-> <<2>>, daily_tasks |-> 1],
      [optimal_day_range |-> <<days - 1>>, daily_tasks |-> 1]>>

\* the phases of an analysis read from the JSON of the reply
ReplyPhaseChoices ==
    [optimal_day_range : {<<>>, <<1>>, <<3>>}, daily_tasks : {1, 2}]

\* phase.get('optimal_day_range', [1, 1])[0] - 1
PhaseStartDay(phase) ==
    IF phase.optimal_day_range = <<>> THEN 0
    ELSE phase.optimal_day_range[1] - 1

\* the rows written for one phase: one per daily task while assignment_date
\* <= end_date, on consecutive days
PhaseRows(phase, k, project_start, project_end) ==
    LET first == project_start + PhaseStartDay(phase)
        written == Min2(phase.daily_tasks, Max2(0, project_end - first + 1))
    IN  [j \in 1..written |->
            [date |-> FormatDate(first + j - 1), phase |-> k]]

RECURSIVE AssignmentRows(_, _, _, _)
\* the rows written for the phases k.. of the analysis
AssignmentRows(phases, k, project_start, project_end) ==
    IF k > Len(phases) THEN <<>>
    ELSE PhaseRows(phases[k], k, project_start, project_end)
         \o AssignmentRows(phases, k + 1, project_start, project_end)

\* analyze_multi_day_project: the project is described and analysed; the
\* analysis is the reply's JSON or, failing that, the fallback breakdown
AnalyzeProject ==
    /\ pj_pc = "start"
    /\ \E start \in ProjectStartChoices, length \in 0..MaxProjectDays :
          project_data' = [start_date |-> FormatDate(start),
                           end_date |-> FormatDate(start + length)]
    /\ \/ \E deadline_days \in 1..MaxProjectDays :
              analysis' = create_fallback_project_breakdown(deadline_days)
       \/ \E n \in 1..2 : analysis' \in [1..n -> ReplyPhaseChoices]
    /\ pj_pc' = "analyzed"
    /\ UNCHANGED <<assignments, coreVars, restVars, blockVars, storeVars,
                   dateVars>>

\* save_multi_day_project(project_data, analysis)
SaveMultiDayProject ==
    /\ pj_pc = "analyzed"
    /\ assignments' = AssignmentRows(analysis, 1,
                                     ParseDate(project_data.start_date),
                                     ParseDate(project_data.end_date))
    /\ pj_pc' = "saved"
    /\ UNCHANGED <<project_data, analysis, coreVars, restVars, blockVars,
                   storeVars, dateVars>>

ProjectNext == AnalyzeProject \/ SaveMultiDayProject

\* smart_weekly_planner has read the work hours; no daily and no weekly
\* schedule is being made
Init ==
    /\ m_pc = "start"
    /\ m_tasks = <<>>
    /\ start_hour = DefaultStartHour
    /\ end_hour = DefaultStartHour + WorkDayLength
    /\ sorted_tasks = <<>>
    /\ m_next = 1
    /\ weekly_schedule = [d \in weekdays |-> EmptyDay]
    /\ deadline_warnings = <<>>
    /\ m_warnings = <<>>
    /\ placed_by = <<>>
    /\ d_pc = "start"
    /\ all_tasks = <<>>
    /\ schedule = <<>>
    /\ w_pc = "start"
    /\ weekly_recurring = <<>>
    /\ goals = <<>>
    /\ additional_tasks = <<>>
    /\ day_offset = 0
    /\ built_days = <<>>
    /\ resolved_days = <<>>
    /\ rc_pc = "start"
    /\ recurring_table = <<>>
    /\ target_weekday = 0
    /\ applicable_tasks = <<>>
    /\ week_recurring = <<>>
    /\ gi_pc = "start"
    /\ pattern = "daily"
    /\ end_date = <<>>
    /\ max_occurrences = <<>>
    /\ start_weekday = 0
    /\ start_day = 1
    /\ start_month = 1
    /\ current_date = 0
    /\ count = 0
    /\ instances = <<>>
    /\ stored_tasks = <<>>
    /\ et_pc = "start"
    /\ description = <<>>
    /\ extracted_time = <<>>
    /\ cd_pc = "start"
    /\ safe_tasks = <<>>
    /\ block_start_hour = 0
    /\ block_end_hour = 0
    /\ current_hour = 0
    /\ scheduled_tasks = <<>>
    /\ schedules = <<>>
    /\ sqlite_sequence = 0
    /\ handed = <<>>
    /\ deleted = {}
    /\ returned = [call |-> "none", id |-> 0, value |-> <<>>]
    /\ wp_pc = "start"
    /\ start_date = [month |-> 1, day |-> 1]
    /\ task_due_date = <<>>
    /\ task_days_until_due = <<>>
    /\ day_dates = <<>>
    /\ pj_pc = "start"
    /\ project_data = [start_date |-> [month |-> 1, day |-> 1],
                       end_date |-> [month |-> 1, day |-> 1]]
    /\ analysis = <<>>
    /\ assignments = <<>>

\* smart_weekly_planner, lines 2364-2395 and 2435: the pending tasks are made
\* into the pool and handed to _generate_weekly_schedule
LoadPool ==
    /\ m_pc = "start"
    /\ m_tasks' \in PoolInputs
    /\ m_pc' = "idle"
    /\ UNCHANGED <<start_hour, end_hour, sorted_tasks, m_next,
                   weekly_schedule, deadline_warnings, m_warnings, placed_by,
                   dailyVars, weeklyVars, restVars, moreVars>>

\* lines 2474-2507: sort the pool, create the empty week
SortAndCreateWeek ==
    /\ m_pc = "idle"
    /\ sorted_tasks' = SortedTasks(m_tasks)
    /\ weekly_schedule' = [d \in weekdays |-> EmptyDay]
    /\ deadline_warnings' = <<>>
    /\ m_next' = 1
    /\ m_pc' = "distribute"
    /\ UNCHANGED <<m_tasks, start_hour, end_hour, m_warnings, placed_by,
                   dailyVars, weeklyVars, restVars, moreVars>>

\* lines 2510-2534: one iteration of the distribution loop
PlaceTask ==
    /\ m_pc = "distribute"
    /\ m_next <= Len(sorted_tasks)
    /\ LET task == sorted_tasks[m_next]
           best == FindBestDay(task, weekly_schedule, DailyCapacity)
       IN  IF best.day # NoDay
           THEN /\ weekly_schedule' =
                      [weekly_schedule EXCEPT
                          ![best.day] = AddToDay(@, task)]
                /\ placed_by' = placed_by @@ (task.title :> best.how)
                /\ UNCHANGED deadline_warnings
           ELSE /\ deadline_warnings' =
                      Append(deadline_warnings,
                             [kind |-> "could_not_schedule",
                              title |-> task.title])
                /\ UNCHANGED <<weekly_schedule, placed_by>>
    /\ m_next' = m_next + 1
    /\ UNCHANGED <<m_pc, m_tasks, start_hour, end_hour, sorted_tasks,
                   m_warnings, dailyVars, weeklyVars, restVars, moreVars>>

\* lines 2549-2553: store the warnings and return
StoreWarnings ==
    /\ m_pc = "distribute"
    /\ m_next > Len(sorted_tasks)
    /\ m_warnings' = IF deadline_warnings # <<>> THEN deadline_warnings
                     ELSE m_warnings
    /\ m_pc' = "done"
    /\ UNCHANGED <<m_tasks, start_hour, end_hour, sorted_tasks, m_next,
                   weekly_schedule, deadline_warnings, placed_by,
                   dailyVars, weeklyVars, restVars, moreVars>>

MasterNext == LoadPool \/ SortAndCreateWeek \/ PlaceTask \/ StoreWarnings

\* a run of smart_weekly_planner
SpecMaster == Init /\ [][MasterNext]_vars

\* a run of create_daily_schedule or of create_weekly_schedule
SpecDay == Init /\ [][DayNext]_vars

\* an expansion of the table of recurring definitions
SpecRecur == Init /\ [][RecurNext]_vars

\* a run of add_recurring_task
SpecInstances == Init /\ [][InstancesNext]_vars

\* a sequence of task-creation operations
SpecCreate == Init /\ [][CreateNext]_vars

\* the extraction of a time from one description
SpecExtract == Init /\ [][ExtractNext]_vars

\* the time blocks of one day
SpecBlocks == Init /\ [][BlocksNext]_vars

\* a sequence of calls of the schedule store
SpecStore == Init /\ [][StoreNext]_vars

\* the dates of one planned week
SpecDates == Init /\ [][DatesNext]_vars

\* the saving of one multi-day project
SpecProject == Init /\ [][ProjectNext]_vars

(* ---- properties of a resolved day ---- *)

\* the positions of the list `out` that hold the task named `name`
Positions(out, name) == {k \in 1..Len(out) : out[k].task = name}

Placed(out, name) == Positions(out, name) # {}

\* the start, in minutes, of the entry of `name` in `out`
StartOf(out, name) ==
    Strptime(out[CHOOSE k \in Positions(out, name) : TRUE].time)

\* the intervals [start, start + duration) of two entries intersect
EntriesIntersect(a, b) ==
    Intersect(Strptime(a.time), a.duration, Strptime(b.time), b.duration)

NoTwoIntersect(out) ==
    \A i, j \in 1..Len(out) : i < j => ~EntriesIntersect(out[i], out[j])

\* two fixed-time tasks of all_tasks whose intervals intersect
FixedTasksIntersect(a, b) ==
    /\ IsFixed(a)
    /\ IsFixed(b)
    /\ Intersect(Strptime(a.preferred_time[1]), a.duration,
                 Strptime(b.preferred_time[1]), b.duration)

\* two fixed entries of a day's list whose intervals intersect
FixedEntriesIntersect(a, b) ==
    a.fixed_time /\ b.fixed_time /\ EntriesIntersect(a, b)

\* the days of the week resolved so far
ResolvedDays == 1..Len(resolved_days)

\* C1: when no two fixed-time tasks of a day overlap each other, no two
\* entries of the resolved day intersect as intervals [start, start+duration)
\* (generate_accurate_schedule, and each list of resolve_daily_conflicts).
C1_NoOverlap ==
    /\ (/\ d_pc = "scheduled"
        /\ \A i, j \in 1..Len(all_tasks) :
              i < j => ~FixedTasksIntersect(all_tasks[i], all_tasks[j]))
          => NoTwoIntersect(schedule)
    /\ \A d \in ResolvedDays :
          (\A i, j \in 1..Len(built_days[d]) :
              i < j => ~FixedEntriesIntersect(built_days[d][i],
                                              built_days[d][j]))
            => NoTwoIntersect(resolved_days[d])

\* C2: every task with a fixed time is in the resolved day exactly once, at
\* its declared time, whatever the other tasks of the day are
\* (generate_accurate_schedule and resolve_daily_conflicts).
C2_FixedKeptAtDeclaredTime ==
    /\ d_pc = "scheduled" =>
          \A i \in 1..Len(all_tasks) :
              IsFixed(all_tasks[i]) =>
                  /\ Cardinality(Positions(schedule, all_tasks[i].task)) = 1
                  /\ \A k \in Positions(schedule, all_tasks[i].task) :
                        /\ schedule[k].time = all_tasks[i].preferred_time[1]
                        /\ schedule[k].duration = all_tasks[i].duration
    /\ \A d \in ResolvedDays :
          \A i \in 1..Len(built_days[d]) :
              built_days[d][i].fixed_time =>
                  /\ Cardinality(Positions(resolved_days[d],
                                           built_days[d][i].task)) = 1
                  /\ \A k \in Positions(resolved_days[d],
                                        built_days[d][i].task) :
                        resolved_days[d][k] = built_days[d][i]

\* C2 witness: a resolved day of two fixed-time tasks that overlap each other
\* and a flexible task that was given a slot
C2_Witness ==
    /\ d_pc = "scheduled"
    /\ \E i, j \in 1..Len(all_tasks) :
          i < j /\ FixedTasksIntersect(all_tasks[i], all_tasks[j])
    /\ \E i \in 1..Len(all_tasks) :
          IsFlexible(all_tasks[i]) /\ Placed(schedule, all_tasks[i].task)


(* ---- properties of the weekly distribution ---- *)

\* the places <<day, position>> at which the task titled t is listed
PlacesOf(t) ==
    {p \in weekdays \X (1..Len(m_tasks)) :
        /\ p[2] <= Len(weekly_schedule[p[1]].tasks)
        /\ weekly_schedule[p[1]].tasks[p[2]].title = t}

DayOf(t) == (CHOOSE p \in PlacesOf(t) : TRUE)[1]

EstTimes(d) ==
    [k \in 1..Len(weekly_schedule[d].tasks) |->
        weekly_schedule[d].tasks[k].est_time]

Overflowed(t) == t \in DOMAIN placed_by /\ placed_by[t] = "least_full"

CapacityChecked(t) == t \in DOMAIN placed_by /\ placed_by[t] # "least_full"

TitlesOn(d) ==
    {weekly_schedule[d].tasks[k].title : k \in 1..Len(weekly_schedule[d].tasks)}

PlacedTitles == UNION {TitlesOn(d) : d \in weekdays}

\* C3: the distribution loop never stops short (each iteration lists exactly
\* the task it was given, so after k iterations k tasks are listed and none
\* is reported as unschedulable); once it has returned, every pool task is
\* listed on exactly one day, exactly once; and at every moment each day's
\* total_hours is the sum of the est_time of the tasks listed on it.
C3_EveryTaskOnOneDay ==
    /\ m_pc \in {"distribute", "done"} =>
          /\ m_next <= Len(sorted_tasks) + 1
          /\ PlacedTitles = {sorted_tasks[i].title : i \in 1..(m_next - 1)}
          /\ deadline_warnings = <<>>
    /\ m_pc = "done" =>
          /\ m_next = Len(m_tasks) + 1
          /\ \A t \in 1..Len(m_tasks) : Cardinality(PlacesOf(t)) = 1
    /\ \A d \in weekdays :
          weekly_schedule[d].total_hours = SeqSum(EstTimes(d), 1)

\* C3 witness: a finished week of a pool of three or more tasks, one of them
\* placed beyond capacity
C3_Witness ==
    /\ m_pc = "done"
    /\ Len(m_tasks) >= 3
    /\ \E t \in 1..Len(m_tasks) : Overflowed(t)
    /\ \E d \in weekdays : Len(weekly_schedule[d].tasks) >= 2

\* C4 as stated: a day holding at least one task placed through the capacity
\* check has a total within the daily capacity.
C4_CapacityRespected ==
    \A d \in weekdays :
        (\E t \in TitlesOn(d) : CapacityChecked(t))
            => weekly_schedule[d].total_hours <= DailyCapacity

\* C4 amended: a day on which no overflow placement was made has a total
\* within the daily capacity.
C4_CapacityWithoutOverflow ==
    \A d \in weekdays :
        (\A t \in TitlesOn(d) : ~Overflowed(t))
            => weekly_schedule[d].total_hours <= DailyCapacity

\* C4 witness: a finished week with a day filled by capacity-checked tasks
\* only, beside a day that took an overflow placement
C4_Witness ==
    /\ m_pc = "done"
    /\ \E d \in weekdays :
          /\ TitlesOn(d) # {}
          /\ \A t \in TitlesOn(d) : CapacityChecked(t)
    /\ \E e \in weekdays :
          /\ weekly_schedule[e].total_hours > DailyCapacity
          /\ \E t \in TitlesOn(e) : CapacityChecked(t)

\* C5: every overflow placement (a task put on the least full day because no
\* day had room) has a warning naming the task in the returned '_warnings'.
C5_OverflowWarned ==
    m_pc = "done" =>
        \A t \in 1..Len(m_tasks) :
            Overflowed(t) =>
                \E i \in 1..Len(m_warnings) : m_warnings[i].title = t

InWeek(task) == HasDue(task) /\ 0 <= Due(task) /\ Due(task) <= 4

PositionOf(t) == CHOOSE i \in 1..Len(sorted_tasks) : sorted_tasks[i].title = t

\* C6 as stated: of two tasks due inside the week, the one due sooner is on a
\* day index <= the other's, when both were placed within capacity.
C6_DeadlineMonotone ==
    m_pc = "done" =>
        \A a, b \in 1..Len(m_tasks) :
            ( /\ InWeek(m_tasks[a]) /\ InWeek(m_tasks[b])
              /\ Due(m_tasks[a]) < Due(m_tasks[b])
              /\ CapacityChecked(a) /\ CapacityChecked(b) )
                => DayOf(a) <= DayOf(b)

\* C6 amended: the task due sooner is offered to day selection before the
\* other, and it is on a day index <= the other's when the pool holds these
\* two tasks only and both were placed within capacity.
C6_DeadlineMonotoneOfTwo ==
    m_pc = "done" =>
        \A a, b \in 1..Len(m_tasks) :
            ( /\ InWeek(m_tasks[a]) /\ InWeek(m_tasks[b])
              /\ Due(m_tasks[a]) < Due(m_tasks[b]) )
                => /\ PositionOf(a) < PositionOf(b)
                   /\ ( /\ Len(m_tasks) = 2
                         /\ CapacityChecked(a) /\ CapacityChecked(b) )
                         => DayOf(a) <= DayOf(b)

\* C6 witness: a finished pool of exactly two tasks due on different days of
\* the week, given in the pool with the later deadline first
C6_Witness ==
    /\ m_pc = "done"
    /\ Len(m_tasks) = 2
    /\ InWeek(m_tasks[1]) /\ InWeek(m_tasks[2])
    /\ Due(m_tasks[2]) < Due(m_tasks[1])
    /\ CapacityChecked(1) /\ CapacityChecked(2)
    /\ DayOf(2) < DayOf(1)

\* C7: a task due inside the week is placed on or before its due day
\* whenever a day on or before the due day has room for it at that moment.
C7_OnOrBeforeDueDay ==
    [][ (m_pc = "distribute" /\ m_next <= Len(sorted_tasks)) =>
          LET task == sorted_tasks[m_next]
          IN  ( /\ InWeek(task)
                /\ \E d \in weekdays :
                      /\ d <= Due(task)
                      /\ Fits(task, weekly_schedule, d, DailyCapacity) )
                => \E d \in weekdays :
                      /\ d <= Due(task)
                      /\ Len(weekly_schedule'[d].tasks)
                            = Len(weekly_schedule[d].tasks) + 1 ]_vars

(* ---- properties of the planned week ---- *)

\* the entries of the list `day` made from the row named `name`
EntriesOf(day, name) == {k \in 1..Len(day) : day[k].task = name}

\* the preferred days declared by the goal or project named `name`
DeclaredDays(name) ==
    IF name[1] = "goal" THEN goals[name[2]].preferred_days
    ELSE IF name[1] = "project" THEN additional_tasks[name[2]].preferred_days
    ELSE <<>>

\* every entry of the list `day`, the day of index weekday, belongs to a row
\* without preferred days or with weekday among them
OnlyOnPreferredDays(day, weekday) ==
    \A k \in 1..Len(day) :
        DeclaredDays(day[k].task) # <<>>
            => InDays(weekday, DeclaredDays(day[k].task))

\* C14: a goal or project with a non-empty set of preferred days is in a
\* day's schedule only if that day is one of them, before and after
\* resolve_daily_conflicts.
C14_OnlyOnPreferredDays ==
    \A d \in ResolvedDays :
        /\ OnlyOnPreferredDays(built_days[d], d - 1)
        /\ OnlyOnPreferredDays(resolved_days[d], d - 1)

\* C14 witness: a returned week with a goal and a project that declare
\* preferred days, each kept on one of its days after the flexible entries
\* were moved
C14_Witness ==
    /\ w_pc = "returned"
    /\ \E d \in ResolvedDays :
          \E k, l \in 1..Len(resolved_days[d]) :
              /\ resolved_days[d][k].task[1] = "goal"
              /\ resolved_days[d][l].task[1] = "project"
              /\ DeclaredDays(resolved_days[d][k].task) # <<>>
              /\ DeclaredDays(resolved_days[d][l].task) # <<>>
              /\ ~resolved_days[d][l].fixed_time
              /\ resolved_days[d][l].time # built_days[d][
                    CHOOSE b \in EntriesOf(built_days[d],
                                           resolved_days[d][l].task) : TRUE].time

\* the minutes the list `day` schedules for the row named `name` (a day
\* holds at most one entry of a row)
MinutesOn(day, name) ==
    IF EntriesOf(day, name) = {} THEN 0
    ELSE day[CHOOSE k \in EntriesOf(day, name) : TRUE].duration

\* the minutes the returned week schedules for the row named `name`
WeekMinutes(name) ==
    SeqSum([d \in 1..Len(resolved_days) |-> MinutesOn(resolved_days[d], name)],
           1)

\* C15: for every goal and every project, the minutes scheduled for it over
\* the seven days of the returned week do not exceed its total estimated
\* minutes (hours x 60).
C15_WithinEstimatedMinutes ==
    w_pc = "returned" =>
        /\ \A i \in 1..Len(goals) :
              WeekMinutes(<<"goal", i>>) <= goals[i].hours
        /\ \A i \in 1..Len(additional_tasks) :
              WeekMinutes(<<"project", i>>) <= additional_tasks[i].hours

(* ---- properties of the expansion of recurring definitions ---- *)

\* the task of row i is in the list `tasks`
Listed(tasks, i) == \E k \in 1..Len(tasks) : tasks[k] = i

\* the row's pattern matches the day of index weekday
PatternMatches(row, weekday) ==
    CASE row.frequency = "daily" -> TRUE
      [] row.frequency = "weekdays" -> weekday < 5
      [] row.frequency = "weekends" -> weekday >= 5
      [] row.frequency = "specific_days" ->
            DayNameIn(weekday, row.frequency_details)
      [] row.frequency = "custom" ->
            DayNameInLowered(weekday, row.frequency_details)

\* C16: get_recurring_tasks_for_date and get_recurring_tasks_for_week
\* include a definition on a day exactly when its pattern matches: daily
\* always, weekdays on index < 5, weekends on index >= 5, specific_days when
\* the day's name is in the detail list, custom when the day's name occurs
\* case-insensitively in the detail text (so a weekdays definition has
\* exactly 5 instances in a week).
C16_IncludedWhenPatternMatches ==
    \A i \in 1..Len(recurring_table) :
        recurring_table[i].frequency
            \in {"daily", "weekdays", "weekends", "specific_days", "custom"}
        => /\ rc_pc = "date" =>
                 (Listed(applicable_tasks, i)
                    <=> PatternMatches(recurring_table[i], target_weekday))
           /\ rc_pc = "week" =>
                 \A weekday \in 0..6 :
                     (Listed(week_recurring[weekday], i)
                        <=> PatternMatches(recurring_table[i], weekday))

\* C17: a definition whose frequency is none of the recognized patterns
\* does not stop the expansion and is included on every day by both
\* functions.
C17_UnrecognizedIncludedDaily ==
    \A i \in 1..Len(recurring_table) :
        recurring_table[i].frequency
            \notin {"daily", "weekdays", "weekends", "specific_days",
                    "custom", "weekly"}
        => /\ rc_pc = "date" => Listed(applicable_tasks, i)
           /\ rc_pc = "week" =>
                 \A weekday \in 0..6 : Listed(week_recurring[weekday], i)

(* ---- properties of the recurring instances ---- *)

\* C18: _generate_recurring_instances creates at most max_occurrences
\* instances when a maximum is given (0 included), no instance dated after
\* end_date when an end date is given, and at most 50 instances when no
\* maximum is given.
C18_InstancesBounded ==
    /\ (max_occurrences # <<>> /\ max_occurrences[1] >= 0)
          => Len(instances) <= max_occurrences[1]
    /\ end_date # <<>>
          => \A i \in 1..Len(instances) : instances[i] <= end_date[1]
    /\ max_occurrences = <<>> => Len(instances) <= 50

(* ---- properties of the stored tasks ---- *)

\* C19: after any sequence of task-creation operations every stored task
\* has urgency in 1..10 and importance in 1..10, hence priority_total in
\* 2..20.
C19_ScoresInRange ==
    \A i \in 1..Len(stored_tasks) :
        /\ stored_tasks[i].urgency \in 1..10
        /\ stored_tasks[i].importance \in 1..10
        /\ priority_total(stored_tasks[i]) \in 2..20

(* ---- properties of the extracted time ---- *)

\* C20: extract_time_from_description returns no time or a normalized
\* 24-hour time: whenever a pattern 'H:MM AM/PM' is matched, the returned
\* 'HH:MM' has 0 <= HH <= 23 and 0 <= MM <= 59.
C20_NormalizedTime ==
    extracted_time # <<>> =>
        /\ extracted_time[1].hour \in 0..23
        /\ extracted_time[1].minute \in 0..59

(* ---- properties of the weekly distribution, continued ---- *)

\* a task is 'high' energy
IsHigh(task) == task.energy_level = "high"

\* a and b are equal in deadline score, priority and energy class
SameRank(a, b, pa, pb) ==
    /\ DeadlinePriority(a) = DeadlinePriority(b)
    /\ pa = pb
    /\ IsHigh(a) = IsHigh(b)

\* a may stand before b: higher deadline score, or the same score and higher
\* priority, or the same of both and a high-energy or b not
MayPrecede(a, b, pa, pb) ==
    \/ DeadlinePriority(a) > DeadlinePriority(b)
    \/ /\ DeadlinePriority(a) = DeadlinePriority(b)
       /\ \/ pa > pb
          \/ pa = pb /\ (IsHigh(a) \/ ~IsHigh(b))

\* C11: tasks are offered to day selection in the order of the key
\* (-deadline score, -priority_total, energy_level != 'high'), ties in pool
\* order; hence every day's list is in non-increasing deadline score, then
\* non-increasing priority, then high energy first.
C11_OfferedInKeyOrder ==
    m_pc \in {"distribute", "done"} =>
        /\ {sorted_tasks[i] : i \in 1..Len(sorted_tasks)}
              = {m_tasks[i] : i \in 1..Len(m_tasks)}
        /\ Len(sorted_tasks) = Len(m_tasks)
        /\ \A i, j \in 1..Len(sorted_tasks) :
              i < j =>
                  LET a == sorted_tasks[i]
                      b == sorted_tasks[j]
                  IN  /\ MayPrecede(a, b, a.priority_total, b.priority_total)
                      /\ SameRank(a, b, a.priority_total, b.priority_total)
                            => a.title < b.title
        /\ \A d \in weekdays :
              \A i, j \in 1..Len(weekly_schedule[d].tasks) :
                  i < j =>
                      LET a == weekly_schedule[d].tasks[i]
                          b == weekly_schedule[d].tasks[j]
                      IN  /\ MayPrecede(a, b, a.priority, b.priority)
                          /\ SameRank(a, b, a.priority, b.priority)
                                => a.title < b.title

\* C11 witness: a finished week with a day that lists a high-energy task
\* before a task of the same deadline score and priority that came earlier
\* in the pool, and two tasks of one rank in pool order
C11_Witness ==
    /\ m_pc = "done"
    /\ \E d \in weekdays :
          \E i, j \in 1..Len(weekly_schedule[d].tasks) :
              LET a == weekly_schedule[d].tasks[i]
                  b == weekly_schedule[d].tasks[j]
              IN  /\ i < j
                  /\ a.title > b.title
                  /\ IsHigh(a)
                  /\ ~IsHigh(b)
                  /\ a.priority = b.priority
                  /\ DeadlinePriority(a) = DeadlinePriority(b)
    /\ \E i, j \in 1..Len(sorted_tasks) :
          /\ i < j
          /\ SameRank(sorted_tasks[i], sorted_tasks[j],
                      sorted_tasks[i].priority_total,
                      sorted_tasks[j].priority_total)

\* the deadline score read off the order of sorted_tasks: the first key
\* component of the task at position i, negated
ScoreAt(i) == 0 - sort_key(sorted_tasks[i])[1]

\* C12: the deadline score that ranks the pool is 1000 for a task due in 0
\* days or less, 100 - days_until_due for 1..7 days, 10 for a task without
\* deadline, and a positive constant of at most 10 for a task due after the
\* 7-day window.
C12_ScoreTable ==
    m_pc \in {"distribute", "done"} =>
        \A i \in 1..Len(sorted_tasks) :
            LET task == sorted_tasks[i]
            IN  /\ (HasDue(task) /\ Due(task) <= 0) => ScoreAt(i) = 1000
                /\ (HasDue(task) /\ Due(task) >= 1 /\ Due(task) <= 7)
                      => ScoreAt(i) = 100 - Due(task)
                /\ ~HasDue(task) => ScoreAt(i) = 10
                /\ (HasDue(task) /\ Due(task) > 7)
                      => (ScoreAt(i) > 0 /\ ScoreAt(i) <= 10)

\* C12 amended: the score is 1000 for a task due in 0 days or less,
\* 100 - days_until_due for 1..7 days, 10 for a task due after the 7-day
\* window and 0 for a task without deadline; a task without deadline is
\* therefore offered after every task that has one.
C12_ScoreTableZeroWithoutDeadline ==
    m_pc \in {"distribute", "done"} =>
        /\ \A i \in 1..Len(sorted_tasks) :
              LET task == sorted_tasks[i]
              IN  /\ (HasDue(task) /\ Due(task) <= 0) => ScoreAt(i) = 1000
                  /\ (HasDue(task) /\ Due(task) >= 1 /\ Due(task) <= 7)
                        => ScoreAt(i) = 100 - Due(task)
                  /\ (HasDue(task) /\ Due(task) > 7) => ScoreAt(i) = 10
                  /\ ~HasDue(task) => ScoreAt(i) = 0
        /\ \A i, j \in 1..Len(sorted_tasks) :
              (HasDue(sorted_tasks[i]) /\ ~HasDue(sorted_tasks[j])) => i < j

\* C12 witness: a task due after the week is offered before a task without
\* deadline that came earlier in the pool and has the higher priority
C12_Witness ==
    /\ m_pc = "done"
    /\ \E i, j \in 1..Len(sorted_tasks) :
          /\ i < j
          /\ HasDue(sorted_tasks[i])
          /\ Due(sorted_tasks[i]) > 7
          /\ ~HasDue(sorted_tasks[j])
          /\ sorted_tasks[j].title < sorted_tasks[i].title
          /\ sorted_tasks[j].priority_total > sorted_tasks[i].priority_total

\* the days of the returned week that list at least one task
DaysInUse == {d \in DOMAIN weekly_schedule : weekly_schedule[d].tasks # <<>>}

C8_NoSilentDrop ==
    /\ d_pc = "scheduled" =>
          \A i \in 1..Len(all_tasks) :
              IsFlexible(all_tasks[i]) =>
                  \/ Placed(schedule, all_tasks[i].task)
                  \/ all_tasks[i].task \in schedule_warnings
    /\ \A d \in ResolvedDays :
          \A i \in 1..Len(built_days[d]) :
              ~built_days[d][i].fixed_time =>
                  \/ Placed(resolved_days[d], built_days[d][i].task)
                  \/ built_days[d][i].task \in schedule_warnings

\* C9: when two fixed-time tasks of a day overlap, the resolved day holds
\* both and carries a fixed-time-conflict warning for the pair.
C9_FixedConflictWarned ==
    /\ d_pc = "scheduled" =>
          \A i, j \in 1..Len(all_tasks) :
              (i < j /\ FixedTasksIntersect(all_tasks[i], all_tasks[j])) =>
                  /\ Placed(schedule, all_tasks[i].task)
                  /\ Placed(schedule, all_tasks[j].task)
                  /\ <<all_tasks[i].task, all_tasks[j].task>>
                        \in schedule_warnings
    /\ \A d \in ResolvedDays :
          \A i, j \in 1..Len(built_days[d]) :
              (i < j /\ FixedEntriesIntersect(built_days[d][i],
                                              built_days[d][j])) =>
                  /\ Placed(resolved_days[d], built_days[d][i].task)
                  /\ Placed(resolved_days[d], built_days[d][j].task)
                  /\ <<built_days[d][i].task, built_days[d][j].task>>
                        \in schedule_warnings

\* the order in which generate_accurate_weekly_schedule builds a day's
\* entries: recurring tasks, then goals, then projects, each in list order
KindRank(kind) ==
    CASE kind = "recurring" -> 1
      [] kind = "goal" -> 2
      [] kind = "project" -> 3

ConstructedBefore(a, b) ==
    \/ KindRank(a.task[1]) < KindRank(b.task[1])
    \/ a.task[1] = b.task[1] /\ a.task[2] < b.task[2]

\* the flexible task a, at position i of the input, outranks the flexible
\* task b at position j
OutranksDaily(i, j) ==
    /\ IsFlexible(all_tasks[i])
    /\ IsFlexible(all_tasks[j])
    /\ \/ all_tasks[i].priority > all_tasks[j].priority
       \/ all_tasks[i].priority = all_tasks[j].priority /\ i < j

\* a is placed whenever b is, and not later than b
ServedFirst(out, a, b) ==
    Placed(out, b) => /\ Placed(out, a)
                      /\ StartOf(out, a) <= StartOf(out, b)

\* generate_accurate_schedule serves the flexible tasks by descending
\* priority, ties in input order
DailyServedByPriority ==
    d_pc = "scheduled" =>
        \A i, j \in 1..Len(all_tasks) :
            OutranksDaily(i, j) =>
                ServedFirst(schedule, all_tasks[i].task, all_tasks[j].task)

InSlot(e) == e.priority[1] = "Priority"

InsideWorkWindow(e) ==
    /\ Strptime(e.time) >= WorkStart
    /\ Strptime(e.time) + e.duration <= WorkEnd

\* C21: every flexible task placed by generate_accurate_schedule lies wholly
\* inside the work window 08:00-18:00: it starts at or after 08:00 and its
\* start plus its duration is at or before 18:00.
C21_FlexibleInsideWorkWindow ==
    d_pc = "scheduled" =>
        \A k \in 1..Len(schedule) :
            InSlot(schedule[k]) => InsideWorkWindow(schedule[k])

Chronological(out) ==
    \A k \in 1..(Len(out) - 1) :
        Strptime(out[k].time) <= Strptime(out[k + 1].time)

\* C22: the per-day list returned by generate_accurate_schedule, and by
\* resolve_daily_conflicts, is in non-decreasing order of start time, for
\* every fixed time the program accepts, with or without a leading zero in
\* the hour.
C22_ChronologicalOrder ==
    /\ d_pc = "scheduled" => Chronological(schedule)
    /\ \A d \in ResolvedDays : Chronological(resolved_days[d])

\* the slots find_available_time_slots returns for the day, when
\* generate_accurate_schedule calls it
OfferedSlots ==
    IF d_pc = "scheduled" /\ FlexibleTasks(all_tasks) # <<>>
    THEN find_available_time_slots(FixedTimeTasks(all_tasks))
    ELSE <<>>

\* C23: every slot that find_available_time_slots offers starts at or after
\* the end plus the 15-minute buffer of every fixed task that starts before
\* the slot.
C23_SlotsAfterBufferedEnd ==
    \A k \in 1..Len(OfferedSlots) :
        \A i \in 1..Len(all_tasks) :
            (/\ IsFixed(all_tasks[i])
             /\ Strptime(all_tasks[i].preferred_time[1])
                    < Strptime(OfferedSlots[k]))
              => Strptime(OfferedSlots[k])
                    >= Strptime(all_tasks[i].preferred_time[1])
                       + all_tasks[i].duration + BufferMinutes

(* ---- properties of the day selection ---- *)

\* the days whose task list grows in the step
DaysGrown ==
    {d \in weekdays :
        Len(weekly_schedule'[d].tasks) = Len(weekly_schedule[d].tasks) + 1}

\* no day can take the task within capacity
NoDayFits(task) ==
    \A e \in weekdays : ~Fits(task, weekly_schedule, e, DailyCapacity)

\* d has the smallest running total, and is the earliest such day
EarliestLeastFull(d) ==
    \A e \in weekdays :
        \/ weekly_schedule[d].total_hours < weekly_schedule[e].total_hours
        \/ /\ weekly_schedule[d].total_hours = weekly_schedule[e].total_hours
           /\ d <= e

\* C24: _find_best_day_for_task always returns some day; it returns a day on
\* which the task does not fit within capacity only when no day of the week
\* can take the task within capacity, and then the day returned has the
\* minimal running total, the earliest such day on ties.
C24_OverflowOnlyWhenNoDayFits ==
    [][ (m_pc = "distribute" /\ m_next <= Len(sorted_tasks)) =>
          LET task == sorted_tasks[m_next]
          IN  /\ Cardinality(DaysGrown) = 1
              /\ \A d \in DaysGrown :
                    \/ Fits(task, weekly_schedule, d, DailyCapacity)
                    \/ NoDayFits(task) /\ EarliestLeastFull(d) ]_vars

\* C24 witness: a finished week in which one task went to a day with room
\* left, and a later one to the least full of five days that were all too
\* full for it, the days' totals not being all equal at the end
C24_Witness ==
    /\ m_pc = "done"
    /\ \E t, u \in 1..Len(m_tasks) :
          /\ CapacityChecked(t)
          /\ Overflowed(u)
          /\ DayOf(u) # 0
    /\ \A d \in weekdays : weekly_schedule[d].tasks # <<>>

(* ---- properties of the time blocks ---- *)

\* C25: the time blocks built by create_daily_schedule form a chain inside
\* the work window: they are created in the order of the task list, each
\* starts at least 15 minutes after the previous one ends, none starts
\* before start_hour or ends after end_hour, none is longer than 3 hours,
\* and at most 8 are created.
C25_BlocksChained ==
    /\ Len(scheduled_tasks) <= TopTasks
    /\ \A k \in 1..Len(scheduled_tasks) :
          LET time == scheduled_tasks[k].time
          IN  /\ scheduled_tasks[k].task = k
              /\ time.from * 60 >= block_start_hour
              /\ time.to * 60 <= block_end_hour
              /\ (time.to - time.from) * 60 <= MaxBlockMinutes
              /\ k > 1 =>
                    time.from * 60 >= scheduled_tasks[k - 1].time.to * 60
                                        + BlockBufferMinutes

\* C28: a task among the first 8 of the list is left without a block only
\* because the window is exhausted: when the loop has ended with such a task
\* left, less than 30 minutes remain between the current position and
\* end_hour.
C28_LeftOnlyWhenWindowExhausted ==
    (cd_pc = "done"
        /\ Len(scheduled_tasks) < Min2(TopTasks, Len(safe_tasks)))
      => block_end_hour - current_hour < MinBlockMinutes

(* ---- properties of the schedule store ---- *)

\* what the store holds under each id ever returned
StoreHolds ==
    \A id \in DOMAIN handed :
        IF id \in deleted
        THEN get_schedule(id) = <<>>
        ELSE /\ get_schedule(id) # <<>>
             /\ get_schedule(id)[1].id = id
             /\ get_schedule(id)[1].schedule_data = handed[id]

\* what a call returns, and what delete_schedule changes
StoreStep ==
    /\ returned'.call = "get" =>
          returned'.value = get_schedule(returned'.id)
    /\ returned'.call = "delete" =>
          /\ returned'.value = <<returned'.id \in DOMAIN schedules>>
          /\ \A id \in DOMAIN schedules \ {returned'.id} :
                id \in DOMAIN schedules' /\ schedules'[id] = schedules[id]
    /\ returned'.call = "save" =>
          /\ returned'.id \notin DOMAIN handed
          /\ \A id \in DOMAIN schedules :
                id \in DOMAIN schedules' /\ schedules'[id] = schedules[id]

C27_EndsNormally ==
    /\ gi_pc # "raised"
    /\ gi_pc \in {"loop", "returned"} => count <= Max2(LoopLimit, 0)
    /\ count = Len(instances)

(* ---- properties of the dates of the week ---- *)

\* C29: in the week returned by _generate_weekly_schedule, the date of each
\* day entry falls on the weekday named by its key, and a task's
\* days_until_due counts the days to the day entry with that index, for
\* every week start date, Monday or not.
C29_DatesOnNamedWeekdays ==
    wp_pc = "created" =>
        /\ \A i \in weekdays : Weekday(ParseDate(day_dates[i])) = i
        /\ \A i \in weekdays :
              task_days_until_due = <<i>> => day_dates[i] = task_due_date[1]

(* ---- properties of the project assignments ---- *)

\* C30: every assignment row written by save_multi_day_project has a date
\* inside the project's own range [start_date, end_date], for every analysis
\* it can be given, the fallback breakdown for any deadline of days >= 1
\* included.
C30_AssignmentsInsideProject ==
    \A i \in 1..Len(assignments) :
        /\ ParseDate(assignments[i].date) >= ParseDate(project_data.start_date)
        /\ ParseDate(assignments[i].date) <= ParseDate(project_data.end_date)

=============================================================================
